---- MODULE Spec2Model ----
(***************************************************************************)
(* Model of the lsdn network model (netmodel/lsdn.c): the object graph of  *)
(* a context (settings, nets, physes, attachments, virts, remote views),   *)
(* the per-object lifecycle state, validation and the commit engine.       *)
(*                                                                         *)
(* Objects are identified by small integers (attachments by the pair      *)
(* <<phys, net>>); an allocation takes the lowest free identifier.         *)
(* Intrusive lists are sets of identifiers, walked in ascending order.     *)
(* The nettype hooks are modelled by a recording driver: every call is     *)
(* appended to `calls' and counted in the dp_* bags.                       *)
(***************************************************************************)
EXTENDS Integers, Sequences, FiniteSets, Bags, TLC

\* ---------------------------------------------------------------- bounds
MaxSettings == 2                 \* settings objects a context holds
MaxNet == 2                      \* nets a context holds
MaxPhys == 2                     \* physes a context holds
MaxVirt == 2                     \* virts a context holds
MaxPhysNets == 1                 \* physes of the host in the nettype scenarios
MaxOutstanding == 1              \* copies of one artifact held when a commit starts
MaxVirtNew == 1                  \* virts alive when lsdn_virt_new is still called
MaxClist == 2                    \* struct lsdn_clist objects of the program
MaxEntry == 2                    \* struct lsdn_clist_entry objects of the program
LSDN_CLIST_MAX == 2              \* slots of one entry (private/clist.h)

SId == 1..MaxSettings
NId == 1..MaxNet
PId == 1..MaxPhys
VId == 1..MaxVirt
ClistIds == 1..MaxClist
EntryIds == 1..MaxEntry
ClistIndexes == 0..(LSDN_CLIST_MAX - 1)

\* ------------------------------------------------------------- constants
NoPa == <<0, 0>>                 \* NULL for struct lsdn_phys_attachment *
NullStr == "NULL"                \* NULL for char * attributes and unset ifnames
NoMac == 0                       \* NULL attr_mac
NoIp == 0                        \* NULL attr_ip

MacValues == {1, 2}              \* MAC addresses handed to lsdn_virt_set_mac
PhysIfaces == {"eth0"}           \* names handed to lsdn_phys_set_iface
VirtIfaces == {"tap0", "tap1"}   \* names handed to lsdn_virt_connect
KernelIfs == {"eth0", "tap0"}    \* interfaces lsdn_if_resolve finds in the kernel
VnetIds == {1, 2}                \* vnet_id arguments of lsdn_net_new
IpValues == {1, 2}               \* addresses handed to lsdn_phys_set_ip
Ports == {0, 1}                  \* port arguments of lsdn_settings_new_vxlan_e2e
ThisHost == {1}                  \* the physes this process may claim as local

\* enum lsdn_state
LSDN_STATE_NEW == "NEW"
LSDN_STATE_RENEW == "RENEW"
LSDN_STATE_DELETE == "DELETE"
LSDN_STATE_OK == "OK"
lsdn_state == {LSDN_STATE_NEW, LSDN_STATE_RENEW, LSDN_STATE_DELETE, LSDN_STATE_OK}

\* lsdn_err_t
LSDNE_OK == "OK"
LSDNE_NOMEM == "NOMEM"
LSDNE_VALIDATE == "VALIDATE"
LSDNE_COMMIT == "COMMIT"
lsdn_err_t == {LSDNE_OK, LSDNE_NOMEM, "DUPLICATE", "NOIF", "NETLINK", LSDNE_VALIDATE, LSDNE_COMMIT}

\* members of struct lsdn_net_ops
AllHooks == {"create_pa", "destroy_pa", "add_virt", "remove_virt",
             "add_remote_pa", "remove_remote_pa", "add_remote_virt", "remove_remote_virt",
             "validate_pa", "validate_virt"}
DriverHooks == AllHooks \ {"validate_pa", "validate_virt"}
RemoveHooks == {"remove_virt", "remove_remote_virt", "remove_remote_pa", "destroy_pa"}
AddHooks == {"create_pa", "add_virt", "add_remote_pa", "add_remote_virt"}

\* static struct lsdn_net_ops lsdn_net_direct_ops
lsdn_net_direct_ops == {"create_pa", "add_virt", "remove_virt", "destroy_pa"}
\* the vtable of the static VXLAN nettype: every data-plane hook
lsdn_net_vxlan_static_ops == DriverHooks
\* the vtable of the end-to-end VXLAN nettype: no hooks for remote virts
lsdn_net_vxlan_e2e_ops == DriverHooks \ {"add_remote_virt", "remove_remote_virt"}
\* the vtable of the VLAN nettype: a learning bridge per attachment
lsdn_net_vlan_ops == {"create_pa", "add_virt", "remove_virt", "destroy_pa"}

VARIABLES
    settings,       \* ctx->settings_list:  settings id -> struct lsdn_settings
    nets,           \* ctx->networks_list:  net id -> struct lsdn_net
    physes,         \* ctx->phys_list:      phys id -> struct lsdn_phys
    pas,            \* allocated struct lsdn_phys_attachment, by <<phys, net>>
    virts,          \* allocated struct lsdn_virt
    rpas,           \* bag of struct lsdn_remote_pa, <<local pa, remote pa>>
    rvirts,         \* bag of struct lsdn_remote_virt, <<local pa, remote pa, virt>>
    problems,       \* problems reported by the last public call, in order
    problem_count,  \* ctx->problem_count
    problem_cb,     \* ctx->problem_cb is not NULL
    cb_calls,       \* calls of the problem callback during the last public call
    hook_fails,     \* the data-plane hooks of the driver report a problem when called
    disable_decommit, \* ctx->disable_decommit
    clists,         \* initialised struct lsdn_clist: id -> [clist_index, cleanup_list]
    clist_entries,  \* initialised struct lsdn_clist_entry
    calls,          \* hook calls and acknowledgements of the last public call, in order
    dp_pa,          \* bag: create_pa calls not yet matched by destroy_pa, per attachment
    dp_virt,        \* bag: add_virt calls not yet matched by remove_virt, <<virt, pa>>
    dp_rpa,         \* bag: add_remote_pa not yet matched by remove_remote_pa
    dp_rvirt,       \* bag: add_remote_virt not yet matched by remove_remote_virt
    last,           \* the last public call: [op |-> "lsdn_commit" or "other", ret, repeat];
                    \* repeat: it is a commit that follows a commit that returned OK
    fault           \* "none", or the assertion / invalid access that stopped the program

vars == <<settings, nets, physes, pas, virts, rpas, rvirts, problems,
          problem_count, problem_cb, cb_calls, hook_fails, disable_decommit, clists,
          clist_entries, calls, dp_pa, dp_virt, dp_rpa, dp_rvirt, last, fault>>

\* The program state as one value, threaded through the operators below.
World == [settings |-> settings, nets |-> nets, physes |-> physes, pas |-> pas,
          virts |-> virts, rpas |-> rpas, rvirts |-> rvirts,
          problems |-> <<>>, calls |-> <<>>,
          problem_count |-> problem_count, problem_cb |-> problem_cb, cb_calls |-> 0,
          hook_fails |-> hook_fails, disable_decommit |-> disable_decommit,
          clists |-> clists, clist_entries |-> clist_entries,
          dp_pa |-> dp_pa, dp_virt |-> dp_virt, dp_rpa |-> dp_rpa, dp_rvirt |-> dp_rvirt,
          fault |-> fault]

\* ------------------------------------------------------------- utilities
Drop(f, k) == [x \in (DOMAIN f) \ {k} |-> f[x]]
Put(f, k, v) == [x \in (DOMAIN f) \cup {k} |-> IF x = k THEN v ELSE f[x]]

BagAdd(b, e) == b (+) SetToBag({e})
BagDel(b, e) == b (-) SetToBag({e})
BagCount(b, e) == CopiesIn(e, b)

LowestFree(ids, used) == CHOOSE i \in ids \ used : \A j \in ids \ used : i <= j

\* lsdn_foreach over a list of integer handles: ascending order
RECURSIVE ListOf(_)
ListOf(S) ==
    IF S = {} THEN <<>>
    ELSE LET m == CHOOSE x \in S : \A y \in S : x <= y
         IN <<m>> \o ListOf(S \ {m})

\* lsdn_foreach over a list of attachments: ascending by phys, then net
PaLess(a, b) == a[1] < b[1] \/ (a[1] = b[1] /\ a[2] <= b[2])
RECURSIVE PaListOf(_)
PaListOf(S) ==
    IF S = {} THEN <<>>
    ELSE LET m == CHOOSE x \in S : \A y \in S : PaLess(x, y)
         IN <<m>> \o PaListOf(S \ {m})

\* the body of a loop applied to each element in turn; a stopped program does nothing
RECURSIVE lsdn_foreach(_, _, _)
lsdn_foreach(list, Body(_, _), w) ==
    IF list = <<>> \/ w.fault # "none" THEN w
    ELSE lsdn_foreach(Tail(list), Body, Body(w, Head(list)))

Fail(w, what) == IF w.fault # "none" THEN w ELSE [w EXCEPT !.fault = what]

\* sequencing: the rest of a function runs unless the program has stopped
Then(w, Rest(_)) == IF w.fault # "none" THEN w ELSE Rest(w)

\* ------------------------------------------------------- state primitives
\* renew() that also takes NEW to RENEW
renew_from_new(state) ==
    IF state = LSDN_STATE_OK \/ state = LSDN_STATE_NEW THEN LSDN_STATE_RENEW ELSE state

\* renew(): the state after the call; the assertion is RenewAllowed
renew(state) == IF state = LSDN_STATE_OK THEN LSDN_STATE_RENEW ELSE state
RenewAllowed(state) == state # LSDN_STATE_DELETE

renew_phys(w, p) ==
    IF ~RenewAllowed(w.physes[p].state) THEN Fail(w, "assert:renew")
    ELSE [w EXCEPT !.physes[p].state = renew(@)]

renew_virt(w, v) ==
    IF ~RenewAllowed(w.virts[v].state) THEN Fail(w, "assert:renew")
    ELSE [w EXCEPT !.virts[v].state = renew(@)]

\* propagate(): the new state of `to'
propagate(from, to) ==
    IF from = LSDN_STATE_RENEW /\ to = LSDN_STATE_OK THEN LSDN_STATE_RENEW ELSE to

should_be_validated(state) == state = LSDN_STATE_NEW \/ state = LSDN_STATE_RENEW
will_be_deleted(state) == state = LSDN_STATE_DELETE

\* ack_state() that forgets the objects in state NEW
ack_state_renew_only(s) == IF s = LSDN_STATE_RENEW THEN LSDN_STATE_OK ELSE s

\* ack_state(): the new state
ack_state(s) == IF s = LSDN_STATE_NEW \/ s = LSDN_STATE_RENEW THEN LSDN_STATE_OK ELSE s

\* ack_uncommit() that also returns true for an object in state OK
ack_uncommit_ret_ok_too(s) == s # LSDN_STATE_NEW

\* ack_uncommit(): the returned flag and the new state
ack_uncommit_ret(s) == s = LSDN_STATE_DELETE \/ s = LSDN_STATE_RENEW
ack_uncommit_state(s) == IF s = LSDN_STATE_RENEW THEN LSDN_STATE_NEW ELSE s

\* ----------------------------------------------------------- attachments
\* the attachment of phys p to net n found on p's attached_to_list, or NoPa
find_attachement(w, p, n) ==
    LET found == {a \in w.physes[p].attached_to_list : w.pas[a].net = n}
    IN IF found = {} THEN NoPa ELSE CHOOSE a \in found : TRUE

new_attachement(p, n) ==
    [phys |-> p, net |-> n, state |-> LSDN_STATE_NEW,
     explicitely_attached |-> FALSE, connected_virt_list |-> {}]

\* find_or_create_attachement() that allocates without looking for the pair
find_or_create_attachement_always(w, p, n) ==
    [w EXCEPT !.pas = Put(@, <<p, n>>, new_attachement(p, n)),
              !.nets[n].attached_list = @ \cup {<<p, n>>},
              !.physes[p].attached_to_list = @ \cup {<<p, n>>}]

\* find_or_create_attachement(): the world after the call; the attachment is
\* then find_attachement(w', p, n)
find_or_create_attachement(w, p, n) ==
    IF find_attachement(w, p, n) # NoPa THEN w
    ELSE LET a == <<p, n>>
         IN [w EXCEPT !.pas = Put(@, a, new_attachement(p, n)),
                      !.nets[n].attached_list = @ \cup {a},
                      !.physes[p].attached_to_list = @ \cup {a}]

lsdn_phys_attach(w, p, n) ==
    LET w1 == find_or_create_attachement(w, p, n)
        a == find_attachement(w1, p, n)
    IN [w1 EXCEPT !.pas[a].explicitely_attached = TRUE]

pa_do_free(w, a) ==
    IF w.pas[a].connected_virt_list # {} THEN Fail(w, "assert:pa_do_free:connected_virt_list")
    ELSE IF w.pas[a].explicitely_attached THEN Fail(w, "assert:pa_do_free:explicitely_attached")
    ELSE [w EXCEPT !.nets[w.pas[a].net].attached_list = @ \ {a},
                   !.physes[w.pas[a].phys].attached_to_list = @ \ {a},
                   !.pas = Drop(@, a)]

\* free_helper(a, pa_do_free)
free_helper_pa(w, a) ==
    IF w.pas[a].state = LSDN_STATE_NEW THEN pa_do_free(w, a)
    ELSE [w EXCEPT !.pas[a].state = LSDN_STATE_DELETE]

free_pa_if_possible(w, a) ==
    IF w.pas[a].connected_virt_list = {} /\ ~w.pas[a].explicitely_attached
    THEN free_helper_pa(w, a)
    ELSE w

\* phys_detach_by_pa() that leaves the attachment to the user
phys_detach_by_pa_keeps(w, a) == [w EXCEPT !.pas[a].explicitely_attached = FALSE]

phys_detach_by_pa(w, a) ==
    free_pa_if_possible([w EXCEPT !.pas[a].explicitely_attached = FALSE], a)

lsdn_phys_detach(w, p, n) ==
    LET a == find_attachement(w, p, n)
    IN IF a = NoPa THEN w ELSE phys_detach_by_pa(w, a)

\* ------------------------------------------------------------------ virts
new_virt(n) ==
    [network |-> n, state |-> LSDN_STATE_NEW, attr_mac |-> NoMac,
     connected_through |-> NoPa, committed_to |-> NoPa,
     connected_if |-> NullStr, committed_if |-> NullStr]

lsdn_virt_new(w, n) ==
    LET v == LowestFree(VId, DOMAIN w.virts)
    IN [w EXCEPT !.virts = Put(@, v, new_virt(n)),
                 !.nets[n].virt_list = @ \cup {v}]

\* virt_do_free(): the virt leaves net->virt_list and is freed
virt_do_free_unlink(w, v) ==
    [w EXCEPT !.nets[w.virts[v].network].virt_list = @ \ {v},
              !.virts = Drop(@, v)]

\* virt_do_free() that leaves the attachment of the virt alone
virt_do_free_keeps_pa(w, v) ==
    LET a == w.virts[v].connected_through
    IN IF a = NoPa THEN virt_do_free_unlink(w, v)
       ELSE virt_do_free_unlink([w EXCEPT !.pas[a].connected_virt_list = @ \ {v}], v)

virt_do_free(w, v) ==
    LET a == w.virts[v].connected_through
    IN IF a = NoPa THEN virt_do_free_unlink(w, v)
       ELSE Then(free_pa_if_possible([w EXCEPT !.pas[a].connected_virt_list = @ \ {v}], a),
                 LAMBDA f : virt_do_free_unlink(f, v))

\* free_helper(virt, virt_do_free)
lsdn_virt_free(w, v) ==
    IF w.virts[v].state = LSDN_STATE_NEW THEN virt_do_free(w, v)
    ELSE [w EXCEPT !.virts[v].state = LSDN_STATE_DELETE]

lsdn_virt_disconnect(w, v) ==
    LET a == w.virts[v].connected_through
    IN IF a = NoPa THEN w
       ELSE renew_virt([w EXCEPT !.pas[a].connected_virt_list = @ \ {v},
                                 !.virts[v].connected_through = NoPa], v)

\* lsdn_virt_connect() that does not take the virt off the list it is on
virt_connect_through_no_disconnect(w, v, a, iface) ==
    Then(renew_virt([w EXCEPT !.virts[v].connected_if = iface,
                              !.virts[v].connected_through = a], v),
         LAMBDA w3 : [w3 EXCEPT !.pas[a].connected_virt_list = @ \cup {v}])

\* lsdn_virt_connect() once the attachment exists and the interface name is set
virt_connect_through(w, v, a, iface) ==
    Then(lsdn_virt_disconnect([w EXCEPT !.virts[v].connected_if = iface], v),
         LAMBDA w2 :
             Then(renew_virt([w2 EXCEPT !.virts[v].connected_through = a], v),
                  LAMBDA w3 : [w3 EXCEPT !.pas[a].connected_virt_list = @ \cup {v}]))

\* lsdn_virt_connect(); if_ok is whether lsdn_if_set_name succeeds
lsdn_virt_connect(w, v, p, iface, if_ok) ==
    IF ~if_ok THEN find_or_create_attachement(w, p, w.virts[v].network)
    ELSE virt_connect_through(find_or_create_attachement(w, p, w.virts[v].network),
                              v, <<p, w.virts[v].network>>, iface)

lsdn_virt_set_mac(w, v, mac) == [w EXCEPT !.virts[v].attr_mac = mac]

\* ----------------------------------------------------------------- physes
new_phys ==
    [state |-> LSDN_STATE_NEW, attr_iface |-> NullStr, attr_ip |-> NoIp,
     is_local |-> FALSE, commited_as_local |-> FALSE, attached_to_list |-> {}]

lsdn_phys_new(w) ==
    [w EXCEPT !.physes = Put(@, LowestFree(PId, DOMAIN w.physes), new_phys)]

phys_do_free(w, p) == [w EXCEPT !.physes = Drop(@, p)]

\* free_helper(phys, phys_do_free)
free_helper_phys(w, p) ==
    IF w.physes[p].state = LSDN_STATE_NEW THEN phys_do_free(w, p)
    ELSE [w EXCEPT !.physes[p].state = LSDN_STATE_DELETE]

\* the body of the outer loop of lsdn_phys_free
phys_free_pa(w, a) ==
    Then(lsdn_foreach(ListOf(w.pas[a].connected_virt_list), lsdn_virt_disconnect, w),
         LAMBDA w1 : phys_detach_by_pa(w1, a))

lsdn_phys_free(w, p) ==
    Then(lsdn_foreach(PaListOf(w.physes[p].attached_to_list), phys_free_pa, w),
         LAMBDA w1 : free_helper_phys(w1, p))

lsdn_phys_set_iface(w, p, iface) == [w EXCEPT !.physes[p].attr_iface = iface]
lsdn_phys_clear_iface(w, p) == [w EXCEPT !.physes[p].attr_iface = NullStr]
lsdn_phys_set_ip(w, p, ip) == [w EXCEPT !.physes[p].attr_ip = ip]

lsdn_phys_claim_local(w, p) ==
    IF ~w.physes[p].is_local
    THEN Then(renew_phys(w, p), LAMBDA w1 : [w1 EXCEPT !.physes[p].is_local = TRUE])
    ELSE w

lsdn_phys_unclaim_local(w, p) ==
    IF w.physes[p].is_local
    THEN Then(renew_phys(w, p), LAMBDA w1 : [w1 EXCEPT !.physes[p].is_local = FALSE])
    ELSE w

\* ------------------------------------------------------- nets and settings
new_net(s, vnet_id) ==
    [state |-> LSDN_STATE_NEW, settings |-> s, vnet_id |-> vnet_id,
     attached_list |-> {}, virt_list |-> {}]

lsdn_net_new(w, s, vnet_id) ==
    LET n == LowestFree(NId, DOMAIN w.nets)
    IN [w EXCEPT !.nets = Put(@, n, new_net(s, vnet_id)),
                 !.settings[s].setting_users_list = @ \cup {n}]

net_do_free(w, n) ==
    IF w.nets[n].attached_list # {} THEN Fail(w, "assert:net_do_free:attached_list")
    ELSE IF w.nets[n].virt_list # {} THEN Fail(w, "assert:net_do_free:virt_list")
    ELSE [w EXCEPT !.settings[w.nets[n].settings].setting_users_list = @ \ {n},
                   !.nets = Drop(@, n)]

\* free_helper(net, net_do_free)
free_helper_net(w, n) ==
    IF w.nets[n].state = LSDN_STATE_NEW THEN net_do_free(w, n)
    ELSE [w EXCEPT !.nets[n].state = LSDN_STATE_DELETE]

lsdn_net_free(w, n) ==
    Then(lsdn_foreach(ListOf(w.nets[n].virt_list), lsdn_virt_free, w),
         LAMBDA w1 :
             Then(lsdn_foreach(PaListOf(w1.nets[n].attached_list), phys_detach_by_pa, w1),
                  LAMBDA w2 : free_helper_net(w2, n)))

\* lsdn_settings_init_common() followed by the nettype's assignments
new_settings(nettype, switch_type, ops) ==
    [state |-> LSDN_STATE_NEW, nettype |-> nettype, switch_type |-> switch_type,
     ops |-> ops, port |-> 0, user_hooks |-> FALSE, setting_users_list |-> {}]

lsdn_settings_new_direct(w) ==
    [w EXCEPT !.settings = Put(@, LowestFree(SId, DOMAIN w.settings),
                               new_settings("DIRECT", "LEARNING", lsdn_net_direct_ops))]

lsdn_settings_new_vxlan_static(w) ==
    [w EXCEPT !.settings = Put(@, LowestFree(SId, DOMAIN w.settings),
                               new_settings("VXLAN", "STATIC_E2E", lsdn_net_vxlan_static_ops))]

lsdn_settings_new_vxlan_e2e(w, port) ==
    [w EXCEPT !.settings =
        Put(@, LowestFree(SId, DOMAIN w.settings),
            [new_settings("VXLAN", "LEARNING_E2E", lsdn_net_vxlan_e2e_ops) EXCEPT !.port = port])]

lsdn_settings_new_vlan(w) ==
    [w EXCEPT !.settings = Put(@, LowestFree(SId, DOMAIN w.settings),
                               new_settings("VLAN", "LEARNING", lsdn_net_vlan_ops))]

\* settings of a nettype whose vtable sets the hooks `ops' and no other
lsdn_settings_new_ops(w, ops) ==
    [w EXCEPT !.settings = Put(@, LowestFree(SId, DOMAIN w.settings),
                               new_settings("VXLAN", "STATIC_E2E", ops))]

lsdn_settings_register_user_hooks(w, s) == [w EXCEPT !.settings[s].user_hooks = TRUE]

settings_do_free(w, s) ==
    IF w.settings[s].setting_users_list # {} THEN Fail(w, "assert:settings_do_free:setting_users_list")
    ELSE [w EXCEPT !.settings = Drop(@, s)]

\* free_helper(settings, settings_do_free)
free_helper_settings(w, s) ==
    IF w.settings[s].state = LSDN_STATE_NEW THEN settings_do_free(w, s)
    ELSE [w EXCEPT !.settings[s].state = LSDN_STATE_DELETE]

\* lsdn_settings_free() without the loop that frees the nets
lsdn_settings_free_no_nets(w, s) == free_helper_settings(w, s)

lsdn_settings_free(w, s) ==
    Then(lsdn_foreach(ListOf(w.settings[s].setting_users_list), lsdn_net_free, w),
         LAMBDA w1 : free_helper_settings(w1, s))

\* ------------------------------------------------------------- validation
\* lsdn_problem_report(): the problem is counted whether or not a callback is set
lsdn_problem_report(w, code, refs) ==
    [w EXCEPT !.problems = Append(@, [code |-> code, refs |-> refs]),
              !.cb_calls = IF w.problem_cb THEN @ + 1 ELSE @,
              !.problem_count = @ + 1]

\* lsdn_if_resolve() == LSDNE_OK
lsdn_if_resolve(ifname) == ifname \in KernelIfs

\* the recording driver: hook `op' called with `arg'; the event keeps the
\* outstanding data-plane artifacts as they were before the call
Event(w, op, arg) ==
    [op |-> op, arg |-> arg,
     before |-> [pa |-> w.dp_pa, virt |-> w.dp_virt, rpa |-> w.dp_rpa, rvirt |-> w.dp_rvirt]]

Record(w, op, arg) == [w EXCEPT !.calls = Append(@, Event(w, op, arg))]

\* a data-plane hook of a driver whose operations fail reports a problem
hook_problem(w, op) ==
    IF w.hook_fails /\ op \in DriverHooks
    THEN lsdn_problem_report(w, "COMMIT_HOOK", <<op>>)
    ELSE w

\* a call through the vtable without a NULL check
CallHook(w, ops, op, arg) ==
    IF op \notin ops THEN Fail(w, "null:hook")
    ELSE LET r == hook_problem(Record(w, op, arg), op)
         IN CASE op = "create_pa" -> [r EXCEPT !.dp_pa = BagAdd(@, arg)]
              [] op = "destroy_pa" -> [r EXCEPT !.dp_pa = BagDel(@, arg)]
              [] op = "add_virt" -> [r EXCEPT !.dp_virt = BagAdd(@, arg)]
              [] op = "remove_virt" -> [r EXCEPT !.dp_virt = BagDel(@, arg)]
              [] op = "add_remote_pa" -> [r EXCEPT !.dp_rpa = BagAdd(@, arg)]
              [] op = "remove_remote_pa" -> [r EXCEPT !.dp_rpa = BagDel(@, arg)]
              [] op = "add_remote_virt" -> [r EXCEPT !.dp_rvirt = BagAdd(@, arg)]
              [] op = "remove_remote_virt" -> [r EXCEPT !.dp_rvirt = BagDel(@, arg)]
              [] OTHER -> r

\* if (ops->hook) ops->hook(arg)
CallHookIfSet(w, ops, op, arg) == IF op \in ops THEN CallHook(w, ops, op, arg) ELSE w

ops_of_net(w, n) == w.settings[w.nets[n].settings].ops

report_virts(w, a) ==
    lsdn_foreach(ListOf(w.pas[a].connected_virt_list),
        LAMBDA u, v :
            IF ~should_be_validated(u.virts[v].state) THEN u
            ELSE lsdn_problem_report(u, "PHYS_NOT_ATTACHED", <<v, u.pas[a].net, u.pas[a].phys>>),
        w)

\* validate_virts_pa(): the VIRT_NOIF check of one virt
validate_virt_if(w, a, v) ==
    IF w.pas[a].explicitely_attached /\ w.physes[w.pas[a].phys].is_local
       /\ ~lsdn_if_resolve(w.virts[v].connected_if)
    THEN lsdn_problem_report(w, "VIRT_NOIF", <<v>>)
    ELSE w

validate_virts_pa(w, a) ==
    lsdn_foreach(ListOf(w.pas[a].connected_virt_list),
        LAMBDA u, v :
            IF ~should_be_validated(u.virts[v].state) THEN u
            ELSE CallHookIfSet(validate_virt_if(u, a, v),
                               ops_of_net(u, u.pas[a].net), "validate_virt", v),
        w)

validate_virts_net(w, n) ==
    lsdn_foreach(ListOf(w.nets[n].virt_list),
        LAMBDA u, v1 :
            IF ~should_be_validated(u.virts[v1].state) \/ u.virts[v1].attr_mac = NoMac THEN u
            ELSE lsdn_foreach(ListOf(u.nets[n].virt_list),
                    LAMBDA x, v2 :
                        IF v1 = v2 \/ ~should_be_validated(x.virts[v2].state)
                           \/ x.virts[v2].attr_mac = NoMac
                        THEN x
                        ELSE IF x.virts[v1].attr_mac = x.virts[v2].attr_mac
                        THEN lsdn_problem_report(x, "VIRT_DUPATTR", <<v1, v2, n>>)
                        ELSE x,
                    u),
        w)

\* cross_validate_networks(): the NET_DUPID check
cross_validate_dupid(w, net1, net2) ==
    IF w.settings[w.nets[net1].settings].nettype = w.settings[w.nets[net2].settings].nettype
       /\ w.nets[net1].vnet_id = w.nets[net2].vnet_id
    THEN lsdn_problem_report(w, "NET_DUPID", <<net1, net2>>)
    ELSE w

\* cross_validate_networks() that checks the nettypes whatever the attachments
cross_validate_nettype_unattached(w, net1, net2) ==
    LET s1 == w.settings[w.nets[net1].settings]
        s2 == w.settings[w.nets[net2].settings]
    IN IF s1.nettype = "VXLAN" /\ s2.nettype = "VXLAN"
          /\ s1.switch_type = "STATIC_E2E" /\ s2.switch_type # "STATIC_E2E"
          /\ s1.port = s2.port
       THEN lsdn_problem_report(w, "NET_BAD_NETTYPE", <<net1, net2>>)
       ELSE w

\* cross_validate_networks(): the NET_BAD_NETTYPE check
cross_validate_nettype(w, net1, net2) ==
    LET s1 == w.settings[w.nets[net1].settings]
        s2 == w.settings[w.nets[net2].settings]
        check_nettypes ==
            \E pa1 \in w.nets[net1].attached_list : \E pa2 \in w.nets[net2].attached_list :
                w.physes[w.pas[pa1].phys].is_local /\ w.physes[w.pas[pa2].phys].is_local
    IN IF check_nettypes /\ s1.nettype = "VXLAN" /\ s2.nettype = "VXLAN"
          /\ s1.switch_type = "STATIC_E2E" /\ s2.switch_type # "STATIC_E2E"
          /\ s1.port = s2.port
       THEN lsdn_problem_report(w, "NET_BAD_NETTYPE", <<net1, net2>>)
       ELSE w

cross_validate_networks(w, net1, net2) ==
    cross_validate_nettype(cross_validate_dupid(w, net1, net2), net1, net2)

\* lsdn_validate(): propagation from every phys to its attachments
propagate_physes(w) ==
    lsdn_foreach(ListOf(DOMAIN w.physes),
        LAMBDA u, p : lsdn_foreach(PaListOf(u.physes[p].attached_to_list),
            LAMBDA x, a : [x EXCEPT !.pas[a].state = propagate(x.physes[p].state, @)], u),
        w)

\* lsdn_validate(): propagation from every net to its attachments
propagate_nets(w) ==
    lsdn_foreach(ListOf(DOMAIN w.nets),
        LAMBDA u, n : lsdn_foreach(PaListOf(u.nets[n].attached_list),
            LAMBDA x, a : [x EXCEPT !.pas[a].state = propagate(x.nets[n].state, @)], u),
        w)

\* lsdn_validate(): propagation from its attachment to every connected virt
propagate_virts(w) ==
    lsdn_foreach(ListOf(DOMAIN w.nets),
        LAMBDA u, n : lsdn_foreach(ListOf(u.nets[n].virt_list),
            LAMBDA x, v :
                IF x.virts[v].connected_through = NoPa THEN x
                ELSE [x EXCEPT !.virts[v].state =
                         propagate(x.pas[x.virts[v].connected_through].state, @)],
            u),
        w)

\* the propagation loops with the loop over the virts first
propagate_states_virts_first(w) == propagate_nets(propagate_physes(propagate_virts(w)))

\* the three propagation loops at the head of lsdn_validate
propagate_states(w) == propagate_virts(propagate_nets(propagate_physes(w)))

\* lsdn_validate(): the PHYS_NOATTR check of one explicit attachment
validate_pa_iface(w, p, a) ==
    IF w.physes[p].is_local /\ w.physes[p].attr_iface = NullStr
    THEN lsdn_problem_report(w, "PHYS_NOATTR", <<p, w.pas[a].net>>)
    ELSE w

\* lsdn_validate(): the validate_pa hook of one explicit attachment
validate_pa_hook(w, a) ==
    IF should_be_validated(w.pas[a].state)
    THEN CallHookIfSet(w, ops_of_net(w, w.pas[a].net), "validate_pa", a)
    ELSE w

\* lsdn_validate(): the body of the loop over p->attached_to_list
validate_phys_pa(w, p, a) ==
    IF ~w.pas[a].explicitely_attached THEN report_virts(w, a)
    ELSE validate_virts_pa(validate_pa_hook(validate_pa_iface(w, p, a), a), a)

\* lsdn_validate(): the loop over the other physes (PHYS_DUPATTR)
validate_phys_ip(w, p) ==
    lsdn_foreach(ListOf(DOMAIN w.physes),
        LAMBDA u, p_other :
            IF p = p_other \/ will_be_deleted(u.physes[p_other].state) THEN u
            ELSE IF u.physes[p].attr_ip # NoIp /\ u.physes[p_other].attr_ip # NoIp
                    /\ u.physes[p].attr_ip = u.physes[p_other].attr_ip
            THEN lsdn_problem_report(u, "PHYS_DUPATTR", <<p, p_other>>)
            ELSE u,
        w)

\* the body of the loop over ctx->phys_list in lsdn_validate
validate_phys(w, p) ==
    IF will_be_deleted(w.physes[p].state) THEN w
    ELSE validate_phys_ip(
             lsdn_foreach(PaListOf(w.physes[p].attached_to_list),
                 LAMBDA u, a : validate_phys_pa(u, p, a), w),
             p)

\* the body of the loop over ctx->networks_list in lsdn_validate
validate_net(w, net1) ==
    IF will_be_deleted(w.nets[net1].state) THEN w
    ELSE lsdn_foreach(ListOf(DOMAIN w.nets),
             LAMBDA x, net2 :
                 IF net1 # net2 /\ ~will_be_deleted(x.nets[net2].state)
                 THEN cross_validate_networks(x, net1, net2)
                 ELSE x,
             validate_virts_net(w, net1))

\* the two validation loops of lsdn_validate
validate_nets(w) == lsdn_foreach(ListOf(DOMAIN w.nets), validate_net, w)
validate_physes(w) == lsdn_foreach(ListOf(DOMAIN w.physes), validate_phys, w)

\* ctx->problem_cb = cb; ctx->problem_count = 0
validate_begin(w, cb) == [w EXCEPT !.problem_cb = cb, !.problem_count = 0]

\* lsdn_validate(): the world after the call; it failed iff problem_count # 0
lsdn_validate(w, cb) ==
    validate_physes(validate_nets(propagate_states(validate_begin(w, cb))))

\* ---------------------------------------------------------- commit engine
\* the elements of a bag, each as often as it occurs
RECURSIVE BagListOf(_, _)
BagListOf(keys, b) ==
    IF keys = <<>> THEN <<>>
    ELSE [i \in 1..BagCount(b, Head(keys)) |-> Head(keys)] \o BagListOf(Tail(keys), b)

\* lsdn_foreach over lists of remote views: ascending by local, remote (and virt)
RECURSIVE ViewListOf(_)
ViewListOf(S) ==
    IF S = {} THEN <<>>
    ELSE LET m == CHOOSE x \in S : \A y \in S :
                     \/ x = y
                     \/ (x[1] # y[1] /\ PaLess(x[1], y[1]))
                     \/ (x[1] = y[1] /\ x[2] # y[2] /\ PaLess(x[2], y[2]))
                     \/ (x[1] = y[1] /\ x[2] = y[2] /\ x[3] < y[3])
         IN <<m>> \o ViewListOf(S \ {m})

\* pa->pa_view_list, pa->remote_pa_list, rpa->remote_virt_list, virt->virt_view_list
pa_view_list(w, a) == BagListOf(ViewListOf({x \in BagToSet(w.rpas) : x[2] = a}), w.rpas)
remote_pa_list(w, a) == BagListOf(ViewListOf({x \in BagToSet(w.rpas) : x[1] = a}), w.rpas)
remote_virt_list(w, rpa) ==
    BagListOf(ViewListOf({x \in BagToSet(w.rvirts) : x[1] = rpa[1] /\ x[2] = rpa[2]}), w.rvirts)
virt_view_list(w, v) == BagListOf(ViewListOf({x \in BagToSet(w.rvirts) : x[3] = v}), w.rvirts)

\* commit_pa() that creates the attachment whatever its state
commit_pa_create_always(w, pa) == CallHook(w, ops_of_net(w, w.pas[pa].net), "create_pa", pa)

\* commit_pa(): create_pa for an attachment in state NEW; the vtable entry is
\* called without a NULL check
commit_pa_create(w, pa) ==
    IF w.pas[pa].state = LSDN_STATE_NEW
    THEN CallHook(w, ops_of_net(w, w.pas[pa].net), "create_pa", pa)
    ELSE w

\* commit_pa(): the loop over pa->connected_virt_list
commit_pa_virts(w, pa) ==
    lsdn_foreach(ListOf(w.pas[pa].connected_virt_list),
        LAMBDA u, v :
            IF u.virts[v].state # LSDN_STATE_NEW THEN u
            ELSE CallHookIfSet(
                     [u EXCEPT !.virts[v].committed_to = pa,
                               !.virts[v].committed_if = u.virts[v].connected_if],
                     ops_of_net(u, u.pas[pa].net), "add_virt", <<v, pa>>),
        w)

\* commit_pa(): the loop over pa->net->attached_list
commit_pa_remote_pas(w, pa) ==
    lsdn_foreach(PaListOf(w.nets[w.pas[pa].net].attached_list),
        LAMBDA u, remote :
            IF remote = pa \/ u.pas[remote].state # LSDN_STATE_NEW THEN u
            ELSE CallHookIfSet([u EXCEPT !.rpas = BagAdd(@, <<pa, remote>>)],
                               ops_of_net(u, u.pas[pa].net), "add_remote_pa", <<pa, remote>>),
        w)

\* commit_pa(): the loop over pa->remote_pa_list
commit_pa_remote_virts(w, pa) ==
    lsdn_foreach(remote_pa_list(w, pa),
        LAMBDA u, rpa :
            IF rpa[2] \notin DOMAIN u.pas THEN Fail(u, "dangling:rpa->remote")
            ELSE lsdn_foreach(ListOf(u.pas[rpa[2]].connected_virt_list),
                     LAMBDA x, v :
                         IF x.virts[v].state # LSDN_STATE_NEW THEN x
                         ELSE CallHookIfSet(
                                  [x EXCEPT !.rvirts = BagAdd(@, <<rpa[1], rpa[2], v>>)],
                                  ops_of_net(x, x.pas[pa].net),
                                  "add_remote_virt", <<rpa[1], rpa[2], v>>),
                     u),
        w)

\* commit_pa() that adds the virts before it creates the attachment
commit_pa_virts_first(w, pa) ==
    commit_pa_remote_virts(
        commit_pa_remote_pas(commit_pa_create(commit_pa_virts(w, pa), pa), pa), pa)

commit_pa(w, pa) ==
    commit_pa_remote_virts(
        commit_pa_remote_pas(commit_pa_virts(commit_pa_create(w, pa), pa), pa), pa)

\* decommit_virt(): if (pa) { remove_virt; committed_to = NULL }
decommit_virt_local(w, v) ==
    LET pa == w.virts[v].committed_to
    IN IF pa = NoPa THEN w
       ELSE IF pa \notin DOMAIN w.pas THEN Fail(w, "dangling:committed_to")
       ELSE [CallHookIfSet(w, ops_of_net(w, w.virts[v].network), "remove_virt", <<v, pa>>)
                EXCEPT !.virts[v].committed_to = NoPa,
                       !.virts[v].committed_if = NullStr]

\* decommit_virt(): the loop over v->virt_view_list
decommit_virt_views(w, v) ==
    lsdn_foreach(virt_view_list(w, v),
        LAMBDA u, rv :
            [CallHookIfSet(u, ops_of_net(u, u.virts[v].network), "remove_remote_virt", rv)
                EXCEPT !.rvirts = BagDel(@, rv)],
        w)

\* decommit_virt() that leaves the virt on the attachment it is committed to
decommit_virt_keeps_local(w, v) == decommit_virt_views(w, v)

decommit_virt(w, v) == decommit_virt_views(decommit_virt_local(w, v), v)

\* decommit_remote_pa(): the view leaves both lists; the assertion
decommit_remote_pa_unlink(w, rpa) ==
    IF remote_virt_list(w, rpa) # <<>>
    THEN Fail([w EXCEPT !.rpas = BagDel(@, rpa)], "assert:decommit_remote_pa:remote_virt_list")
    ELSE [w EXCEPT !.rpas = BagDel(@, rpa)]

decommit_remote_pa(w, rpa) ==
    IF rpa[1] \notin DOMAIN w.pas THEN Fail(w, "dangling:rpa->local")
    ELSE decommit_remote_pa_unlink(
             CallHookIfSet(w, ops_of_net(w, w.pas[rpa[1]].net), "remove_remote_pa", rpa), rpa)

\* decommit_pa(): destroy_pa if the phys was committed as local
decommit_pa_destroy(w, pa) ==
    IF w.physes[w.pas[pa].phys].commited_as_local
    THEN CallHookIfSet(w, ops_of_net(w, w.pas[pa].net), "destroy_pa", pa)
    ELSE w

\* decommit_pa() that destroys the attachment before it removes the views
decommit_pa_destroy_first(w, pa) ==
    Then(decommit_pa_destroy(w, pa),
         LAMBDA w1 :
             Then(lsdn_foreach(pa_view_list(w1, pa), decommit_remote_pa, w1),
                  LAMBDA w2 : lsdn_foreach(remote_pa_list(w2, pa), decommit_remote_pa, w2)))

decommit_pa(w, pa) ==
    Then(lsdn_foreach(pa_view_list(w, pa), decommit_remote_pa, w),
         LAMBDA w1 :
             Then(lsdn_foreach(remote_pa_list(w1, pa), decommit_remote_pa, w1),
                  LAMBDA w2 : decommit_pa_destroy(w2, pa)))

\* trigger_startup_hooks() without the test of is_local
trigger_startup_hooks_every_phys(w) ==
    lsdn_foreach(ListOf(DOMAIN w.physes),
        LAMBDA u, p :
            lsdn_foreach(PaListOf(u.physes[p].attached_to_list),
                LAMBDA x, a :
                    IF x.settings[x.nets[x.pas[a].net].settings].user_hooks
                    THEN Record(x, "lsdn_startup_hook", <<x.pas[a].net, p>>)
                    ELSE x,
                u),
        w)

trigger_startup_hooks(w) ==
    lsdn_foreach(ListOf(DOMAIN w.physes),
        LAMBDA u, p :
            IF ~u.physes[p].is_local THEN u
            ELSE lsdn_foreach(PaListOf(u.physes[p].attached_to_list),
                     LAMBDA x, a :
                         IF x.settings[x.nets[x.pas[a].net].settings].user_hooks
                         THEN Record(x, "lsdn_startup_hook", <<x.pas[a].net, p>>)
                         ELSE x,
                     u),
        w)

\* the decommit phase for one virt: if (ack_uncommit) { decommit_virt; ack_delete }
decommit_net_virt(w, v) ==
    IF ~ack_uncommit_ret(w.virts[v].state) THEN w
    ELSE Then(decommit_virt([w EXCEPT !.virts[v].state = ack_uncommit_state(@)], v),
              LAMBDA x : IF x.virts[v].state = LSDN_STATE_DELETE THEN virt_do_free(x, v) ELSE x)

\* the decommit phase for one attachment: if (ack_uncommit) { decommit_pa; ack_delete }
decommit_net_pa(w, pa) ==
    IF ~ack_uncommit_ret(w.pas[pa].state) THEN w
    ELSE Then(decommit_pa([w EXCEPT !.pas[pa].state = ack_uncommit_state(@)], pa),
              LAMBDA x : IF x.pas[pa].state = LSDN_STATE_DELETE THEN pa_do_free(x, pa) ELSE x)

\* the decommit phase for the net itself: if (ack_uncommit) ack_delete
decommit_net_self(w, n) ==
    IF ~ack_uncommit_ret(w.nets[n].state) THEN w
    ELSE IF w.nets[n].state = LSDN_STATE_DELETE THEN net_do_free(w, n)
    ELSE [w EXCEPT !.nets[n].state = ack_uncommit_state(@)]

\* the body of the loop over ctx->networks_list in the decommit phase
decommit_net(w, n) ==
    Then(lsdn_foreach(ListOf(w.nets[n].virt_list), decommit_net_virt, w),
         LAMBDA w1 :
             Then(lsdn_foreach(PaListOf(w1.nets[n].attached_list), decommit_net_pa, w1),
                  LAMBDA w2 : decommit_net_self(w2, n)))

\* the decommit phase for one phys: if (ack_uncommit) ack_delete
decommit_phys(w, p) ==
    IF ~ack_uncommit_ret(w.physes[p].state) THEN w
    ELSE IF w.physes[p].state = LSDN_STATE_DELETE THEN phys_do_free(w, p)
    ELSE [w EXCEPT !.physes[p].state = ack_uncommit_state(@)]

\* the decommit phase for one settings object: if (ack_uncommit) ack_delete
decommit_settings(w, s) ==
    IF ~ack_uncommit_ret(w.settings[s].state) THEN w
    ELSE IF w.settings[s].state = LSDN_STATE_DELETE THEN settings_do_free(w, s)
    ELSE [w EXCEPT !.settings[s].state = ack_uncommit_state(@)]

decommit_phase(w) ==
    Then(lsdn_foreach(ListOf(DOMAIN w.nets), decommit_net, w),
         LAMBDA w1 :
             Then(lsdn_foreach(ListOf(DOMAIN w1.physes), decommit_phys, w1),
                  LAMBDA w2 : lsdn_foreach(ListOf(DOMAIN w2.settings), decommit_settings, w2)))

\* the recommit phase without the test of p->is_local
recommit_phase_every_phys(w) ==
    lsdn_foreach(ListOf(DOMAIN w.physes),
        LAMBDA u, p :
            lsdn_foreach(PaListOf(u.physes[p].attached_to_list), commit_pa,
                [u EXCEPT !.physes[p].commited_as_local = u.physes[p].is_local]),
        w)

recommit_phase(w) ==
    lsdn_foreach(ListOf(DOMAIN w.physes),
        LAMBDA u, p :
            IF ~u.physes[p].is_local THEN u
            ELSE lsdn_foreach(PaListOf(u.physes[p].attached_to_list), commit_pa,
                     [u EXCEPT !.physes[p].commited_as_local = u.physes[p].is_local]),
        w)

\* ack_state() on one object; a lift to OK is recorded
Ack(w, kind, id, state) ==
    IF ack_state(state) # state THEN Record(w, "ack_state", <<kind, id>>) ELSE w

ack_settings(w, s) ==
    [Ack(w, "settings", s, w.settings[s].state) EXCEPT !.settings[s].state = ack_state(@)]

ack_phys(w, p) ==
    [Ack(w, "phys", p, w.physes[p].state) EXCEPT !.physes[p].state = ack_state(@)]

ack_pa(w, pa) ==
    [Ack(w, "pa", pa, w.pas[pa].state) EXCEPT !.pas[pa].state = ack_state(@)]

ack_virt(w, v) ==
    [Ack(w, "virt", v, w.virts[v].state) EXCEPT !.virts[v].state = ack_state(@)]

\* the ack phase for one net: the net, its attachments, its virts
ack_net(w, n) ==
    lsdn_foreach(ListOf(w.nets[n].virt_list), ack_virt,
        lsdn_foreach(PaListOf(w.nets[n].attached_list), ack_pa,
            [Ack(w, "net", n, w.nets[n].state) EXCEPT !.nets[n].state = ack_state(@)]))

ack_phase(w) ==
    lsdn_foreach(ListOf(DOMAIN w.nets), ack_net,
        lsdn_foreach(ListOf(DOMAIN w.physes), ack_phys,
            lsdn_foreach(ListOf(DOMAIN w.settings), ack_settings, w)))

\* the value of the identifier `err' returned when validation fails: it is not
\* the result of lsdn_validate (that is `lerr'); a non-null object converted
\* to lsdn_err_t, i.e. any value but LSDNE_OK
UnspecifiedErr == (lsdn_err_t \ {LSDNE_OK}) \cup {"UNSPECIFIED"}

\* lsdn_commit() with the recommit phase ahead of the decommit phase
commit_phases_recommit_first(w) ==
    Then(recommit_phase(w), LAMBDA w2 : Then(decommit_phase(w2), ack_phase))

\* lsdn_commit() after validation: decommit, recommit and acknowledge
commit_phases(w) ==
    Then(decommit_phase(w), LAMBDA w2 : Then(recommit_phase(w2), ack_phase))

\* return (ctx->problem_count == 0) ? LSDNE_OK : LSDNE_COMMIT, or the program stopped
lsdn_commit_return(w) ==
    [w |-> w,
     ret |-> IF w.fault # "none" THEN {"ABORT"}
             ELSE IF w.problem_count = 0 THEN {LSDNE_OK}
             ELSE {LSDNE_COMMIT}]

\* lsdn_commit() that runs the decommit phase before it returns the failure of
\* lsdn_validate
lsdn_commit_validated_decommits(w) ==
    IF w.fault # "none" THEN [w |-> w, ret |-> {"ABORT"}]
    ELSE IF w.problem_count # 0 THEN [w |-> decommit_phase(w), ret |-> UnspecifiedErr]
    ELSE lsdn_commit_return(commit_phases(w))

\* lsdn_commit() from the result of lsdn_validate on
lsdn_commit_validated(w) ==
    IF w.fault # "none" THEN [w |-> w, ret |-> {"ABORT"}]
    ELSE IF w.problem_count # 0 THEN [w |-> w, ret |-> UnspecifiedErr]
    ELSE lsdn_commit_return(commit_phases(w))

\* lsdn_commit(): the world after the call and the values it may return
lsdn_commit(w, cb) == lsdn_commit_validated(lsdn_validate(trigger_startup_hooks(w), cb))

\* ------------------------------------------------------- context teardown
\* lsdn_context_cleanup(): the two loops that free every phys and every settings
cleanup_free_all(w) ==
    Then(lsdn_foreach(ListOf(DOMAIN w.physes), lsdn_phys_free, w),
         LAMBDA w1 : lsdn_foreach(ListOf(DOMAIN w1.settings), lsdn_settings_free, w1))

\* lsdn_context_cleanup(ctx, cb, user) with a callback that returns; the value
\* of lsdn_commit is dropped, and the context itself is freed
lsdn_context_cleanup(w) == lsdn_commit(cleanup_free_all(w), TRUE).w

\* abort_handler(): the first problem reported stops the program
abort_handler(w) == IF w.problem_count # 0 THEN Fail(w, "abort:abort_handler") ELSE w

\* lsdn_context_free(): lsdn_context_cleanup with disable_decommit set and
\* abort_handler as the callback
lsdn_context_free(w) ==
    LET v == abort_handler(lsdn_validate(trigger_startup_hooks(
                 cleanup_free_all([w EXCEPT !.disable_decommit = TRUE])), TRUE))
    IN abort_handler(lsdn_commit_validated(v).w)

\* -------------------------------------------- the direct nettype's driver
\* lsdn_lbridge_remove(): the interface leaves its bridge
lsdn_lbridge_remove(dd, iface) ==
    IF ~dd THEN <<[op |-> "lsdn_link_set_master", master |-> 0, iface |-> iface]>> ELSE <<>>

\* lsdn_lbridge_free(): the bridge interface is deleted
lsdn_lbridge_free(dd, br) ==
    IF ~dd THEN <<[op |-> "lsdn_link_delete", iface |-> br]>> ELSE <<>>

\* direct_destroy_pa(): the netlink operations it issues for attachment a
direct_destroy_pa(dd, a) ==
    lsdn_lbridge_remove(dd, <<"tunnel_if", a>>)
    \o lsdn_lbridge_free(dd, <<"bridge_if", a>>)
    \o (IF ~dd THEN <<[op |-> "lsdn_link_delete", iface |-> <<"tunnel_if", a>>]>> ELSE <<>>)

\* lsdn_lbridge_remove_virt(): the netlink operations it issues for virt v
lsdn_lbridge_remove_virt(dd, v) == lsdn_lbridge_remove(dd, <<"committed_if", v>>)

\* ----------------------------------------------------------- cleanup lists
\* lsdn_is_list_empty(&entry->cleanup_entry[i]): slot i of entry e is in no list
clist_holds(w, c, e) ==
    \E k \in DOMAIN w.clists[c].cleanup_list : w.clists[c].cleanup_list[k] = e

lsdn_is_list_empty(w, e, i) ==
    \A c \in DOMAIN w.clists : w.clists[c].clist_index = i => ~clist_holds(w, c, e)

\* lsdn_list_remove(&entry->cleanup_entry[i]): the slot leaves the list it is
\* in, if any; the recording names the list
lsdn_list_remove(w, e, i) ==
    IF lsdn_is_list_empty(w, e, i) THEN w
    ELSE Record([w EXCEPT !.clists =
                    [c \in DOMAIN w.clists |->
                        IF w.clists[c].clist_index # i THEN w.clists[c]
                        ELSE [clist_index |-> i,
                              cleanup_list |-> SelectSeq(w.clists[c].cleanup_list,
                                                         LAMBDA x : x # e)]]],
                "lsdn_list_remove",
                <<e, CHOOSE c \in DOMAIN w.clists :
                          w.clists[c].clist_index = i /\ clist_holds(w, c, e)>>)

lsdn_clist_init(w, c, clist_index) ==
    [w EXCEPT !.clists = Put(@, c, [clist_index |-> clist_index, cleanup_list |-> <<>>])]

lsdn_clist_init_entry(w, e) == [w EXCEPT !.clist_entries = @ \cup {e}]

lsdn_clist_add(w, c, e) ==
    IF ~lsdn_is_list_empty(w, e, w.clists[c].clist_index)
    THEN Fail(w, "assert:lsdn_clist_add")
    ELSE [w EXCEPT !.clists[c].cleanup_list = <<e>> \o @]

\* the loop of lsdn_clist_flush over the slots i < k of entry ce
RECURSIVE clist_unlink(_, _, _)
clist_unlink(w, ce, k) ==
    IF k = 0 THEN w ELSE lsdn_list_remove(clist_unlink(w, ce, k - 1), ce, k - 1)

\* lsdn_clist_flush() that takes the entry off the flushed list only
lsdn_clist_flush_own_slot(w, c) ==
    lsdn_foreach(w.clists[c].cleanup_list,
                 LAMBDA w1, ce : Record(lsdn_list_remove(w1, ce, w.clists[c].clist_index),
                                        "cb", ce),
                 w)

lsdn_clist_flush(w, c) ==
    lsdn_foreach(w.clists[c].cleanup_list,
                 LAMBDA w1, ce : Record(clist_unlink(w1, ce, LSDN_CLIST_MAX), "cb", ce),
                 w)

\* ------------------------------------------------------------ the machine
\* lsdn_context_new(): an empty context
EmptyWorld ==
    [settings |-> <<>>, nets |-> <<>>, physes |-> <<>>, pas |-> <<>>, virts |-> <<>>,
     rpas |-> EmptyBag, rvirts |-> EmptyBag, problems |-> <<>>, calls |-> <<>>,
     problem_count |-> 0, problem_cb |-> FALSE, cb_calls |-> 0, hook_fails |-> FALSE,
     disable_decommit |-> FALSE, clists |-> <<>>, clist_entries |-> {},
     dp_pa |-> EmptyBag, dp_virt |-> EmptyBag, dp_rpa |-> EmptyBag, dp_rvirt |-> EmptyBag,
     fault |-> "none"]

\* the world w is the state
IsWorld(w) ==
    /\ settings = w.settings /\ nets = w.nets /\ physes = w.physes /\ pas = w.pas
    /\ virts = w.virts /\ rpas = w.rpas /\ rvirts = w.rvirts
    /\ problems = w.problems /\ calls = w.calls
    /\ problem_count = w.problem_count /\ problem_cb = w.problem_cb
    /\ cb_calls = w.cb_calls /\ hook_fails = w.hook_fails
    /\ disable_decommit = w.disable_decommit
    /\ clists = w.clists /\ clist_entries = w.clist_entries
    /\ dp_pa = w.dp_pa /\ dp_virt = w.dp_virt /\ dp_rpa = w.dp_rpa /\ dp_rvirt = w.dp_rvirt
    /\ fault = w.fault

\* lsdn_phys_new() called `k' times, each followed by lsdn_phys_set_iface("eth0")
RECURSIVE WithPhyses(_, _)
WithPhyses(w, k) ==
    IF k = 0 THEN w
    ELSE LET w1 == lsdn_phys_new(WithPhyses(w, k - 1))
         IN lsdn_phys_set_iface(w1, k, "eth0")

\* the model every host starts from: one static VXLAN settings object with a
\* startup hook, one net using it, and MaxPhys physes with their interface set;
\* nothing committed yet
BuiltWorld ==
    WithPhyses(
        lsdn_net_new(
            lsdn_settings_register_user_hooks(lsdn_settings_new_vxlan_static(EmptyWorld), 1),
            1, 1),
        MaxPhys)

\* lsdn_phys_claim_local() on the physes 1..k
RECURSIVE ClaimLocal(_, _)
ClaimLocal(w, k) == IF k = 0 THEN w ELSE lsdn_phys_claim_local(ClaimLocal(w, k - 1), k)

\* the host of the migration test: it has claimed every phys of the model
InitMigrate ==
    /\ IsWorld(ClaimLocal(BuiltWorld, MaxPhys))
    /\ last = [op |-> "other", ret |-> LSDNE_OK, repeat |-> FALSE]

\* lsdn_virt_new() called `k' times on net 1
RECURSIVE WithVirts(_, _)
WithVirts(w, k) == IF k = 0 THEN w ELSE lsdn_virt_new(WithVirts(w, k - 1), 1)

\* the net of the test with its virts created, nothing connected or committed
InitMacs ==
    /\ IsWorld(WithVirts(BuiltWorld, MaxVirt))
    /\ last = [op |-> "other", ret |-> LSDNE_OK, repeat |-> FALSE]

\* lsdn_context_new(): nothing created yet
InitDupId ==
    /\ IsWorld(EmptyWorld)
    /\ last = [op |-> "other", ret |-> LSDNE_OK, repeat |-> FALSE]

\* a context with the phys of the host and no settings or nets yet
InitNets ==
    /\ IsWorld(WithPhyses(EmptyWorld, MaxPhysNets))
    /\ last = [op |-> "other", ret |-> LSDNE_OK, repeat |-> FALSE]

\* the vtables of the model: every hook set, one hook absent, no hook set
Vtables == {AllHooks, {}} \cup {AllHooks \ {h} : h \in AllHooks}

\* a host whose nettype has one of the vtables: a net, the physes with their
\* interface, phys 1 claimed as local, MaxVirtNew virts, nothing committed
InitOps ==
    /\ \E ops \in Vtables :
          IsWorld(WithVirts(lsdn_phys_claim_local(
                      WithPhyses(lsdn_net_new(lsdn_settings_new_ops(EmptyWorld, ops), 1, 1),
                                 MaxPhys), 1), MaxVirtNew))
    /\ last = [op |-> "other", ret |-> LSDNE_OK, repeat |-> FALSE]

\* a host of a direct network: the settings, a net, the physes with their
\* interface, nothing committed
InitDirect ==
    /\ IsWorld(WithPhyses(lsdn_net_new(lsdn_settings_new_direct(EmptyWorld), 1, 1), MaxPhys))
    /\ last = [op |-> "other", ret |-> LSDNE_OK, repeat |-> FALSE]

\* one settings object shared by two nets, and the physes of the host
InitOwners ==
    /\ IsWorld(WithPhyses(
           lsdn_net_new(lsdn_net_new(lsdn_settings_new_vxlan_static(EmptyWorld), 1, 1), 1, 2),
           MaxPhysNets))
    /\ last = [op |-> "other", ret |-> LSDNE_OK, repeat |-> FALSE]

\* a host whose nettype sets every hook, the validation hooks included: the
\* settings, a net, the physes with their interface, nothing committed
InitHooks ==
    /\ IsWorld(WithPhyses(lsdn_net_new(lsdn_settings_new_ops(EmptyWorld, AllHooks), 1, 1),
                          MaxPhys))
    /\ last = [op |-> "other", ret |-> LSDNE_OK, repeat |-> FALSE]

Init ==
    /\ IsWorld(BuiltWorld)
    /\ last = [op |-> "other", ret |-> LSDNE_OK, repeat |-> FALSE]

\* the world r becomes the state
Apply(r) ==
    /\ settings' = r.settings /\ nets' = r.nets /\ physes' = r.physes /\ pas' = r.pas
    /\ virts' = r.virts /\ rpas' = r.rpas /\ rvirts' = r.rvirts
    /\ problems' = r.problems /\ calls' = r.calls
    /\ problem_count' = r.problem_count /\ problem_cb' = r.problem_cb
    /\ cb_calls' = r.cb_calls /\ hook_fails' = r.hook_fails
    /\ disable_decommit' = r.disable_decommit
    /\ clists' = r.clists /\ clist_entries' = r.clist_entries
    /\ dp_pa' = r.dp_pa /\ dp_virt' = r.dp_virt /\ dp_rpa' = r.dp_rpa /\ dp_rvirt' = r.dp_rvirt
    /\ fault' = r.fault

\* the context has not been freed: the last call was not lsdn_context_free or
\* lsdn_context_cleanup
CtxLive == last.op \notin {"lsdn_context_free", "lsdn_context_cleanup"}

\* a public call other than commit (op names it): it returns ret, or the program
\* has stopped
Returns(op, r, ret) ==
    /\ CtxLive
    /\ Apply(r)
    /\ last' = [op |-> "other", ret |-> IF r.fault # "none" THEN "ABORT" ELSE ret,
                repeat |-> FALSE]

\* handles the user may still pass to the library: allocated and not freed by him
LiveSettings == {s \in DOMAIN settings : settings[s].state # LSDN_STATE_DELETE}
LiveNets == {n \in DOMAIN nets : nets[n].state # LSDN_STATE_DELETE}
LivePhyses == {p \in DOMAIN physes : physes[p].state # LSDN_STATE_DELETE}
LiveVirts == {v \in DOMAIN virts : virts[v].state # LSDN_STATE_DELETE}

SettingsNewDirect ==
    /\ fault = "none" /\ DOMAIN settings # SId
    /\ Returns("lsdn_settings_new", lsdn_settings_new_direct(World), LSDNE_OK)

SettingsNewVxlanStatic ==
    /\ fault = "none" /\ DOMAIN settings # SId
    /\ Returns("lsdn_settings_new", lsdn_settings_new_vxlan_static(World), LSDNE_OK)

SettingsNewVxlanE2e ==
    /\ fault = "none" /\ DOMAIN settings # SId
    /\ \E port \in Ports :
        Returns("lsdn_settings_new", lsdn_settings_new_vxlan_e2e(World, port), LSDNE_OK)

SettingsNewVlan ==
    /\ fault = "none" /\ DOMAIN settings # SId
    /\ Returns("lsdn_settings_new", lsdn_settings_new_vlan(World), LSDNE_OK)

SettingsRegisterUserHooks ==
    /\ fault = "none"
    /\ \E s \in LiveSettings :
        /\ ~settings[s].user_hooks
        /\ Returns("lsdn_settings_register_user_hooks",
                   lsdn_settings_register_user_hooks(World, s), LSDNE_OK)

SettingsFree ==
    /\ fault = "none"
    /\ \E s \in LiveSettings : Returns("lsdn_settings_free", lsdn_settings_free(World, s), LSDNE_OK)

NetNew ==
    /\ fault = "none" /\ DOMAIN nets # NId
    /\ \E s \in LiveSettings, vnet_id \in VnetIds :
        Returns("lsdn_net_new", lsdn_net_new(World, s, vnet_id), LSDNE_OK)

NetFree ==
    /\ fault = "none"
    /\ \E n \in LiveNets : Returns("lsdn_net_free", lsdn_net_free(World, n), LSDNE_OK)

PhysNew ==
    /\ fault = "none" /\ DOMAIN physes # PId
    /\ Returns("lsdn_phys_new", lsdn_phys_new(World), LSDNE_OK)

PhysFree ==
    /\ fault = "none"
    /\ \E p \in LivePhyses : Returns("lsdn_phys_free", lsdn_phys_free(World, p), LSDNE_OK)

PhysAttach ==
    /\ fault = "none"
    /\ \E p \in LivePhyses, n \in LiveNets :
        Returns("lsdn_phys_attach", lsdn_phys_attach(World, p, n), LSDNE_OK)

PhysDetach ==
    /\ fault = "none"
    /\ \E p \in LivePhyses, n \in LiveNets :
        Returns("lsdn_phys_detach", lsdn_phys_detach(World, p, n), LSDNE_OK)

PhysSetIface ==
    /\ fault = "none"
    /\ \E p \in LivePhyses, iface \in PhysIfaces :
        Returns("lsdn_phys_set_iface", lsdn_phys_set_iface(World, p, iface), LSDNE_OK)

PhysClearIface ==
    /\ fault = "none"
    /\ \E p \in LivePhyses :
        Returns("lsdn_phys_clear_iface", lsdn_phys_clear_iface(World, p), LSDNE_OK)

PhysSetIp ==
    /\ fault = "none"
    /\ \E p \in LivePhyses, ip \in IpValues :
        Returns("lsdn_phys_set_ip", lsdn_phys_set_ip(World, p, ip), LSDNE_OK)

PhysClaimLocal ==
    /\ fault = "none"
    /\ \E p \in LivePhyses \cap ThisHost :
        Returns("lsdn_phys_claim_local", lsdn_phys_claim_local(World, p), LSDNE_OK)

PhysUnclaimLocal ==
    /\ fault = "none"
    /\ \E p \in LivePhyses :
        Returns("lsdn_phys_unclaim_local", lsdn_phys_unclaim_local(World, p), LSDNE_OK)

VirtNew ==
    /\ fault = "none" /\ Cardinality(DOMAIN virts) < MaxVirtNew
    /\ \E n \in LiveNets : Returns("lsdn_virt_new", lsdn_virt_new(World, n), LSDNE_OK)

VirtFree ==
    /\ fault = "none"
    /\ \E v \in LiveVirts : Returns("lsdn_virt_free", lsdn_virt_free(World, v), LSDNE_OK)

VirtConnect ==
    /\ fault = "none"
    /\ \E v \in LiveVirts, p \in LivePhyses, iface \in VirtIfaces :
        Returns("lsdn_virt_connect", lsdn_virt_connect(World, v, p, iface, TRUE), LSDNE_OK)

\* lsdn_virt_connect() where lsdn_if_set_name fails with err
VirtConnectFails ==
    /\ fault = "none"
    /\ \E v \in LiveVirts, p \in LivePhyses, iface \in VirtIfaces, err \in {LSDNE_NOMEM, "NOIF"} :
        Returns("lsdn_virt_connect", lsdn_virt_connect(World, v, p, iface, FALSE), err)

\* lsdn_phys_attach(), lsdn_virt_connect(), lsdn_phys_set_iface(),
\* lsdn_phys_set_ip() or lsdn_virt_set_mac() whose allocation fails: the call
\* returns LSDNE_NOMEM before it has written anything
NoMemory ==
    /\ fault = "none"
    /\ Returns("nomem", World, LSDNE_NOMEM)

VirtDisconnect ==
    /\ fault = "none"
    /\ \E v \in LiveVirts :
        Returns("lsdn_virt_disconnect", lsdn_virt_disconnect(World, v), LSDNE_OK)

VirtSetMac ==
    /\ fault = "none"
    /\ \E v \in LiveVirts, mac \in MacValues :
        Returns("lsdn_virt_set_mac", lsdn_virt_set_mac(World, v, mac), LSDNE_OK)

\* lsdn_context_free(ctx): nothing is returned and the context is gone
ContextFree ==
    /\ fault = "none" /\ CtxLive
    /\ Apply(lsdn_context_free(World))
    /\ last' = [op |-> "lsdn_context_free",
                ret |-> IF fault' # "none" THEN "ABORT" ELSE LSDNE_OK, repeat |-> FALSE]

\* lsdn_context_cleanup(ctx, cb, user)
ContextCleanup ==
    /\ fault = "none" /\ CtxLive
    /\ Apply(lsdn_context_cleanup(World))
    /\ last' = [op |-> "lsdn_context_cleanup",
                ret |-> IF fault' # "none" THEN "ABORT" ELSE LSDNE_OK, repeat |-> FALSE]

\* lsdn_commit has left the world r.w and returns one of r.ret
CommitReturns(r) ==
    /\ CtxLive
    /\ Apply(r.w)
    /\ \E ret \in r.ret :
          last' = [op |-> "lsdn_commit", ret |-> ret,
                   repeat |-> last.op = "lsdn_commit" /\ last.ret = LSDNE_OK]

\* lsdn_commit(ctx, cb, user) with a problem callback
Commit ==
    /\ fault = "none"
    /\ CommitReturns(lsdn_commit(World, TRUE))

\* lsdn_commit(ctx, NULL, NULL)
CommitNoCallback ==
    /\ fault = "none"
    /\ CommitReturns(lsdn_commit(World, FALSE))

\* the operations of the driver start to fail, or work again
HooksFail ==
    /\ fault = "none"
    /\ Returns("driver", [World EXCEPT !.hook_fails = ~@], LSDNE_OK)

ClistInit ==
    /\ fault = "none"
    /\ \E c \in ClistIds \ DOMAIN clists, i \in ClistIndexes :
        Returns("lsdn_clist_init", lsdn_clist_init(World, c, i), LSDNE_OK)

ClistInitEntry ==
    /\ fault = "none"
    /\ \E e \in EntryIds \ clist_entries :
        Returns("lsdn_clist_init_entry", lsdn_clist_init_entry(World, e), LSDNE_OK)

ClistAdd ==
    /\ fault = "none"
    /\ \E c \in DOMAIN clists, e \in clist_entries :
        Returns("lsdn_clist_add", lsdn_clist_add(World, c, e), LSDNE_OK)

ClistFlush ==
    /\ fault = "none" /\ CtxLive
    /\ \E c \in DOMAIN clists : Apply(lsdn_clist_flush(World, c))
    /\ last' = [op |-> "lsdn_clist_flush", ret |-> LSDNE_OK, repeat |-> FALSE]

\* ------------------------------------------------------------ properties
CommitReturnedOK == last.op = "lsdn_commit" /\ last.ret = LSDNE_OK

\* the calls of the last public call that went to hooks in S
EventsOf(S) == SelectSeq(calls, LAMBDA e : e.op \in S)

\* the data-plane hook calls of the last public call: <<hook, argument>> in order
DriverTrace ==
    LET ev == EventsOf(DriverHooks)
    IN [i \in 1..Len(ev) |-> <<ev[i].op, ev[i].arg>>]

Called(op) == \E i \in 1..Len(calls) : calls[i].op = op

\* the last call was the first commit that passed validation: only that commit
\* lifts the settings from NEW
FirstCommit ==
    /\ CommitReturnedOK
    /\ \E i \in 1..Len(calls) : calls[i].op = "ack_state" /\ calls[i].arg[1] = "settings"

AllObjectStates ==
    {settings[s].state : s \in DOMAIN settings} \cup {nets[n].state : n \in DOMAIN nets}
    \cup {physes[p].state : p \in DOMAIN physes} \cup {pas[a].state : a \in DOMAIN pas}
    \cup {virts[v].state : v \in DOMAIN virts}

\* C1: after lsdn_commit returns LSDNE_OK every object still allocated is in
\* state OK; none is left NEW, RENEW or DELETE.
C1_AllLiveObjectsOK == CommitReturnedOK => AllObjectStates \subseteq {LSDN_STATE_OK}

\* a commit returned OK after committing an attachment and a virt on it
C1_Witness ==
    /\ CommitReturnedOK
    /\ \E v \in DOMAIN virts : virts[v].committed_to # NoPa /\ virts[v].state = LSDN_STATE_OK
    /\ Called("ack_state")

\* C2: a commit that directly follows a commit that returned OK calls no
\* data-plane hook, changes no object and no remote view, and returns OK.
C2_CommitIdempotent ==
    [][(CommitReturnedOK /\ last'.op = "lsdn_commit") =>
          /\ last'.ret = LSDNE_OK
          /\ \A i \in 1..Len(calls') : calls'[i].op \notin DriverHooks
          /\ settings' = settings /\ nets' = nets /\ physes' = physes
          /\ pas' = pas /\ virts' = virts /\ rpas' = rpas /\ rvirts' = rvirts]_vars

\* a second commit in a row, on a model with a committed virt and a remote view
C2_Witness ==
    /\ last.repeat /\ CommitReturnedOK
    /\ \E v \in DOMAIN virts : virts[v].committed_to # NoPa
    /\ rpas # EmptyBag
    /\ dp_pa # EmptyBag

\* C3: when validation reports a problem lsdn_commit returns LSDNE_VALIDATE and
\* has called no data-plane hook.
C3_ValidationFailureReturnsValidate ==
    (last.op = "lsdn_commit" /\ problems # <<>>) =>
        (last.ret = LSDNE_VALIDATE /\ EventsOf(DriverHooks) = <<>>)

\* C3, the part about the data plane: a commit whose validation reports a
\* problem calls no data-plane hook, frees no object and changes no view.
C3_DataPlaneUntouched ==
    [][(last'.op = "lsdn_commit" /\ problems' # <<>>) =>
          /\ \A i \in 1..Len(calls') : calls'[i].op \notin DriverHooks
          /\ DOMAIN settings' = DOMAIN settings /\ DOMAIN nets' = DOMAIN nets
          /\ DOMAIN physes' = DOMAIN physes /\ DOMAIN pas' = DOMAIN pas
          /\ DOMAIN virts' = DOMAIN virts
          /\ rpas' = rpas /\ rvirts' = rvirts
          /\ dp_pa' = dp_pa /\ dp_virt' = dp_virt /\ dp_rpa' = dp_rpa /\ dp_rvirt' = dp_rvirt]_vars

\* C4: within one commit the startup hooks come before everything else, every
\* remove/destroy hook call comes before every create/add hook call, and no
\* state is lifted to OK before the last data-plane hook call.
C4_PhaseOrder ==
    \A i, j \in 1..Len(calls) : i < j =>
        /\ calls[j].op = "lsdn_startup_hook" => calls[i].op = "lsdn_startup_hook"
        /\ ~(calls[i].op \in AddHooks /\ calls[j].op \in RemoveHooks)
        /\ ~(calls[i].op = "ack_state" /\ calls[j].op \in DriverHooks)

\* one commit with a startup hook, a removal, an addition and an acknowledgement
C4_Witness ==
    /\ CommitReturnedOK
    /\ Called("lsdn_startup_hook") /\ Called("ack_state")
    /\ EventsOf(RemoveHooks) # <<>> /\ EventsOf(AddHooks) # <<>>

\* the single-host case: one attachment, of a local phys, explicitly attached,
\* with exactly one virt connected through it
SingleHost(pa, v) ==
    /\ DOMAIN pas = {pa}
    /\ physes[pa[1]].is_local /\ pas[pa].explicitely_attached
    /\ pas[pa].connected_virt_list = {v}

\* C5: add_virt(v) is called only while v's attachment has an outstanding
\* create_pa, add_remote_virt only while its view has an outstanding
\* add_remote_pa; the first commit of the single-host case calls exactly
\* create_pa(pa), add_virt(v).
C5_ChildrenAfterParents ==
    /\ \A i \in 1..Len(calls) :
          /\ calls[i].op = "add_virt" =>
                BagCount(calls[i].before.pa, calls[i].arg[2]) > 0
          /\ calls[i].op = "add_remote_virt" =>
                BagCount(calls[i].before.rpa, <<calls[i].arg[1], calls[i].arg[2]>>) > 0
    /\ \A pa \in DOMAIN pas : \A v \in DOMAIN virts :
          (FirstCommit /\ SingleHost(pa, v)) =>
              DriverTrace = << <<"create_pa", pa>>, <<"add_virt", <<v, pa>>>> >>

\* the first commit of the single-host case
C5_Witness ==
    /\ FirstCommit
    /\ \E pa \in DOMAIN pas : \E v \in DOMAIN virts : SingleHost(pa, v)
    /\ Called("add_virt")

\* C6: remove_remote_pa is called for a view only after every remote virt of
\* the view was removed, and the assertion in decommit_remote_pa holds.
C6_RemoteViewsDeepestFirst ==
    /\ fault # "assert:decommit_remote_pa:remote_virt_list"
    /\ \A i \in 1..Len(calls) :
          calls[i].op = "remove_remote_pa" =>
              \A x \in BagToSet(calls[i].before.rvirt) :
                  ~(x[1] = calls[i].arg[1] /\ x[2] = calls[i].arg[2])

\* C7: destroy_pa(pa) is called only when no virt has an outstanding add_virt
\* on pa and no remote view with pa as its local or remote end is outstanding.
C7_DestroyPaLast ==
    \A i \in 1..Len(calls) :
        calls[i].op = "destroy_pa" =>
            /\ \A x \in BagToSet(calls[i].before.virt) : x[2] # calls[i].arg
            /\ \A x \in BagToSet(calls[i].before.rpa) :
                  x[1] # calls[i].arg /\ x[2] # calls[i].arg

\* one commit removes a virt and a remote view and then destroys the attachment
C7_Witness ==
    /\ Called("destroy_pa") /\ Called("remove_virt") /\ Called("remove_remote_pa")
    /\ fault = "none"

\* C8: after a commit that returned OK each attachment of a local phys has
\* exactly one view of every other attachment of its net, and each view exactly
\* one remote virt per virt connected through that attachment.
C8_ViewsComplete ==
    CommitReturnedOK =>
        \A a \in DOMAIN pas : physes[a[1]].is_local =>
            \A b \in DOMAIN pas \ {a} : pas[b].net = pas[a].net =>
                /\ BagCount(rpas, <<a, b>>) = 1
                /\ \A v \in DOMAIN virts :
                      BagCount(rvirts, <<a, b, v>>) =
                          IF v \in pas[b].connected_virt_list THEN 1 ELSE 0

\* the host that is not local: b attached, a local and attached, v connected
\* through b and nothing through a
RemoteVirtCase(a, b, v) ==
    /\ DOMAIN pas = {a, b} /\ a # b
    /\ physes[a[1]].is_local /\ ~physes[b[1]].is_local
    /\ pas[a].explicitely_attached /\ pas[b].explicitely_attached
    /\ pas[a].connected_virt_list = {} /\ pas[b].connected_virt_list = {v}

\* C9: create_pa and add_virt are never called for an attachment of a phys
\* that is not local; the first commit with a local, b not local and v_b
\* connected through b calls exactly create_pa(pa_a), add_remote_pa,
\* add_remote_virt(v_b).
C9_LocalArtifactsOnlyForLocal ==
    /\ \A i \in 1..Len(calls) :
          /\ calls[i].op = "create_pa" =>
                calls[i].arg[1] \in DOMAIN physes /\ physes[calls[i].arg[1]].is_local
          /\ calls[i].op = "add_virt" =>
                calls[i].arg[2][1] \in DOMAIN physes /\ physes[calls[i].arg[2][1]].is_local
    /\ \A a, b \in DOMAIN pas : \A v \in DOMAIN virts :
          (FirstCommit /\ RemoteVirtCase(a, b, v)) =>
              DriverTrace = << <<"create_pa", a>>, <<"add_remote_pa", <<a, b>>>>,
                               <<"add_remote_virt", <<a, b, v>>>> >>

\* the first commit of the remote-virt case
C9_Witness ==
    /\ FirstCommit
    /\ \E a, b \in DOMAIN pas : \E v \in DOMAIN virts : RemoteVirtCase(a, b, v)
    /\ Called("add_remote_virt")

\* C10: lsdn_virt_set_mac on a virt in state OK moves the virt to RENEW.
C10_SetMacRenews ==
    [][\A v \in DOMAIN virts :
          (/\ v \in DOMAIN virts'
           /\ virts[v].state = LSDN_STATE_OK
           /\ virts'[v].attr_mac # virts[v].attr_mac)
          => virts'[v].state = LSDN_STATE_RENEW]_vars

\* v is committed to one attachment and connected through the attachment of
\* another phys
Migrating(v) ==
    /\ virts[v].state = LSDN_STATE_RENEW
    /\ virts[v].committed_to # NoPa /\ virts[v].connected_through # NoPa
    /\ virts[v].connected_through[1] # virts[v].committed_to[1]

\* the positions in the calls of the step's public call where hook op is called
\* for virt v
VirtCalls(op, v) == {i \in 1..Len(calls') : calls'[i].op = op /\ calls'[i].arg[1] = v}

\* C11: lsdn_virt_connect to another phys leaves a committed virt in state RENEW
\* with its committed attachment and interface untouched; the next commit that
\* returns OK calls remove_virt(v) once, for the committed attachment and before
\* any add hook, calls add_virt(v) once if the new phys is local and not at all
\* otherwise, and leaves v in state OK.
C11_Migration ==
    [][\A v \in DOMAIN virts :
          /\ (/\ last'.op = "other" /\ v \in DOMAIN virts'
              /\ virts[v].state = LSDN_STATE_OK
              /\ virts[v].committed_to # NoPa
              /\ virts[v].connected_through = virts[v].committed_to
              /\ virts'[v].connected_through # NoPa
              /\ virts'[v].connected_through[1] # virts[v].committed_to[1])
             => /\ virts'[v].state = LSDN_STATE_RENEW
                /\ virts'[v].committed_to = virts[v].committed_to
                /\ virts'[v].committed_if = virts[v].committed_if
          /\ (Migrating(v) /\ last'.op = "lsdn_commit" /\ last'.ret = LSDNE_OK)
             => /\ Cardinality(VirtCalls("remove_virt", v)) = 1
                /\ \A i \in VirtCalls("remove_virt", v) :
                      /\ calls'[i].arg = <<v, virts[v].committed_to>>
                      /\ \A j \in 1..Len(calls') : calls'[j].op \in AddHooks => i < j
                /\ Cardinality(VirtCalls("add_virt", v)) =
                      IF physes[virts[v].connected_through[1]].is_local THEN 1 ELSE 0
                /\ \A i \in VirtCalls("add_virt", v) :
                      calls'[i].arg = <<v, virts[v].connected_through>>
                /\ v \in DOMAIN virts' /\ virts'[v].state = LSDN_STATE_OK]_vars

\* a commit returned OK after it moved a virt from one local phys to another
C11_Witness ==
    /\ CommitReturnedOK
    /\ \E v \in DOMAIN virts : \E i, j \in 1..Len(calls) :
          /\ calls[i].op = "remove_virt" /\ calls[j].op = "add_virt"
          /\ calls[i].arg[1] = v /\ calls[j].arg[1] = v
          /\ calls[i].arg[2][1] # calls[j].arg[2][1]
          /\ virts[v].state = LSDN_STATE_OK
\* problem `code' with the references refs is among the problems of the step's
\* public call
Reported(code, refs) ==
    \E i \in 1..Len(problems') : problems'[i] = [code |-> code, refs |-> refs]

\* two distinct virts of net n, neither deleted, with the same MAC attribute
DupMac(n, v1, v2) ==
    /\ v1 # v2 /\ v1 \in nets[n].virt_list /\ v2 \in nets[n].virt_list
    /\ virts[v1].state # LSDN_STATE_DELETE /\ virts[v2].state # LSDN_STATE_DELETE
    /\ virts[v1].attr_mac # NoMac /\ virts[v1].attr_mac = virts[v2].attr_mac

\* C12: a commit on a model where a non-deleted net holds two distinct
\* non-deleted virts with the same MAC, whatever their states, reports
\* VIRT_DUPATTR naming both virts and returns LSDNE_VALIDATE.
C12_DupMacReported ==
    [][last'.op = "lsdn_commit" =>
          \A n \in DOMAIN nets : \A v1, v2 \in DOMAIN virts :
              (nets[n].state # LSDN_STATE_DELETE /\ DupMac(n, v1, v2))
              => /\ Reported("VIRT_DUPATTR", <<v1, v2, n>>)
                 /\ last'.ret = LSDNE_VALIDATE]_vars

\* C12, the part the code keeps: the pair is reported when both virts are NEW
\* or RENEW, and every VIRT_DUPATTR report names such a pair.
C12_DupMacOfValidatedReported ==
    [][last'.op = "lsdn_commit" =>
          /\ \A n \in DOMAIN nets : \A v1, v2 \in DOMAIN virts :
                (/\ nets[n].state # LSDN_STATE_DELETE /\ DupMac(n, v1, v2)
                 /\ should_be_validated(virts[v1].state)
                 /\ should_be_validated(virts[v2].state))
                => Reported("VIRT_DUPATTR", <<v1, v2, n>>)
          /\ \A i \in 1..Len(problems') :
                problems'[i].code = "VIRT_DUPATTR" =>
                    DupMac(problems'[i].refs[3], problems'[i].refs[1], problems'[i].refs[2])]_vars
\* the non-deleted virt v is connected through attachment a of the non-deleted
\* phys p, and a is not explicitly attached
OnImplicitAttachment(p, a, v) ==
    /\ physes[p].state # LSDN_STATE_DELETE
    /\ a \in physes[p].attached_to_list /\ ~pas[a].explicitely_attached
    /\ v \in pas[a].connected_virt_list /\ virts[v].state # LSDN_STATE_DELETE

\* C13: a commit reports PHYS_NOT_ATTACHED for every virt connected through an
\* attachment that is not explicitly attached, of every non-deleted phys, and
\* returns LSDNE_VALIDATE.
C13_NotAttachedReported ==
    [][last'.op = "lsdn_commit" =>
          \A p \in DOMAIN physes : \A a \in DOMAIN pas : \A v \in DOMAIN virts :
              OnImplicitAttachment(p, a, v)
              => /\ Reported("PHYS_NOT_ATTACHED", <<v, pas[a].net, p>>)
                 /\ last'.ret = LSDNE_VALIDATE]_vars

\* C13, the part the code keeps: the virt is reported when it is NEW or RENEW,
\* and every PHYS_NOT_ATTACHED report names a virt on such an attachment.
C13_NotAttachedOfValidatedReported ==
    [][last'.op = "lsdn_commit" =>
          /\ \A p \in DOMAIN physes : \A a \in DOMAIN pas : \A v \in DOMAIN virts :
                (OnImplicitAttachment(p, a, v) /\ should_be_validated(virts[v].state))
                => Reported("PHYS_NOT_ATTACHED", <<v, pas[a].net, p>>)
          /\ \A i \in 1..Len(problems') :
                problems'[i].code = "PHYS_NOT_ATTACHED" =>
                    OnImplicitAttachment(problems'[i].refs[3],
                                         <<problems'[i].refs[3], problems'[i].refs[2]>>,
                                         problems'[i].refs[1])]_vars
\* two distinct nets, neither deleted
LivePair(n1, n2) ==
    /\ n1 # n2
    /\ nets[n1].state # LSDN_STATE_DELETE /\ nets[n2].state # LSDN_STATE_DELETE

SettingsOf(n) == settings[nets[n].settings]

\* C14: a commit reports NET_DUPID for a pair of distinct nets exactly when
\* neither is deleted, their settings have the same nettype and their vnet_id
\* are equal, and then returns LSDNE_VALIDATE.
C14_DupIdReported ==
    [][last'.op = "lsdn_commit" =>
          \A n1, n2 \in DOMAIN nets :
              /\ Reported("NET_DUPID", <<n1, n2>>) <=>
                    /\ LivePair(n1, n2)
                    /\ SettingsOf(n1).nettype = SettingsOf(n2).nettype
                    /\ nets[n1].vnet_id = nets[n2].vnet_id
              /\ Reported("NET_DUPID", <<n1, n2>>) => last'.ret = LSDNE_VALIDATE]_vars

\* C14, the part the code keeps: which pairs are reported.
C14_DupIdReportedExactly ==
    [][last'.op = "lsdn_commit" =>
          \A n1, n2 \in DOMAIN nets :
              Reported("NET_DUPID", <<n1, n2>>) <=>
                  /\ LivePair(n1, n2)
                  /\ SettingsOf(n1).nettype = SettingsOf(n2).nettype
                  /\ nets[n1].vnet_id = nets[n2].vnet_id]_vars

\* net n has an attachment on a local phys
HasLocalAttachment(n) ==
    \E a \in nets[n].attached_list : physes[pas[a].phys].is_local

\* two VXLAN nets on one port of which exactly one is STATIC_E2E
BadNettypes(n1, n2) ==
    /\ SettingsOf(n1).nettype = "VXLAN" /\ SettingsOf(n2).nettype = "VXLAN"
    /\ SettingsOf(n1).port = SettingsOf(n2).port
    /\ (SettingsOf(n1).switch_type = "STATIC_E2E") # (SettingsOf(n2).switch_type = "STATIC_E2E")

\* C15: a commit reports NET_BAD_NETTYPE for a pair of distinct non-deleted nets
\* if and only if both are VXLAN on the same port, exactly one is STATIC_E2E
\* and each has an attachment on a local phys.
C15_BadNettypeIff ==
    [][last'.op = "lsdn_commit" =>
          \A n1, n2 \in DOMAIN nets :
              (Reported("NET_BAD_NETTYPE", <<n1, n2>>) \/ Reported("NET_BAD_NETTYPE", <<n2, n1>>))
              <=> /\ LivePair(n1, n2) /\ BadNettypes(n1, n2)
                  /\ HasLocalAttachment(n1) /\ HasLocalAttachment(n2)]_vars

\* a commit flagged a pair of nets, and the model holds two VXLAN nets
C15_Witness ==
    /\ last.op = "lsdn_commit"
    /\ \E i \in 1..Len(problems) : problems[i].code = "NET_BAD_NETTYPE"
    /\ \E n1, n2 \in DOMAIN nets : LivePair(n1, n2) /\ BadNettypes(n1, n2)

\* two distinct physes, neither deleted, with the same ip attribute
DupIp(p1, p2) ==
    /\ p1 # p2
    /\ physes[p1].state # LSDN_STATE_DELETE /\ physes[p2].state # LSDN_STATE_DELETE
    /\ physes[p1].attr_ip # NoIp /\ physes[p1].attr_ip = physes[p2].attr_ip

\* C16: a commit reports PHYS_DUPATTR naming both physes for every pair of
\* distinct non-deleted physes with equal ip attributes and then returns
\* LSDNE_VALIDATE; no report names a deleted phys or a phys without ip.
C16_DupIpReported ==
    [][last'.op = "lsdn_commit" =>
          \A p1, p2 \in DOMAIN physes :
              /\ Reported("PHYS_DUPATTR", <<p1, p2>>) <=> DupIp(p1, p2)
              /\ DupIp(p1, p2) => last'.ret = LSDNE_VALIDATE]_vars

\* C16, the part the code keeps: which pairs are reported.
C16_DupIpReportedExactly ==
    [][last'.op = "lsdn_commit" =>
          /\ \A p1, p2 \in DOMAIN physes :
                Reported("PHYS_DUPATTR", <<p1, p2>>) <=> DupIp(p1, p2)
          /\ \A i \in 1..Len(problems') :
                problems'[i].code = "PHYS_DUPATTR" =>
                    DupIp(problems'[i].refs[1], problems'[i].refs[2])]_vars

\* the non-deleted local phys p has the explicit attachment a and no iface
NoIface(p, a) ==
    /\ physes[p].state # LSDN_STATE_DELETE /\ physes[p].is_local
    /\ physes[p].attr_iface = NullStr
    /\ a \in physes[p].attached_to_list /\ pas[a].explicitely_attached

\* virt v, NEW or RENEW, is connected through the explicit attachment a of the
\* non-deleted local phys p, and its interface name does not resolve
NoIf(p, a, v) ==
    /\ physes[p].state # LSDN_STATE_DELETE /\ physes[p].is_local
    /\ a \in physes[p].attached_to_list /\ pas[a].explicitely_attached
    /\ v \in pas[a].connected_virt_list /\ should_be_validated(virts[v].state)
    /\ ~lsdn_if_resolve(virts[v].connected_if)

\* the reports of the step's commit for the attachments without iface and the
\* virts without interface, and no create_pa for the phys without iface
PhysAttrsReported ==
    /\ \A p \in DOMAIN physes : \A a \in DOMAIN pas :
          NoIface(p, a) =>
              /\ Reported("PHYS_NOATTR", <<p, pas[a].net>>)
              /\ \A i \in 1..Len(calls') :
                    calls'[i].op = "create_pa" => calls'[i].arg[1] # p
    /\ \A p \in DOMAIN physes : \A a \in DOMAIN pas : \A v \in DOMAIN virts :
          NoIf(p, a, v) => Reported("VIRT_NOIF", <<v>>)

\* C17: a commit reports PHYS_NOATTR for every non-deleted local phys with an
\* explicit attachment and no iface, returns LSDNE_VALIDATE and calls no
\* create_pa for it; it reports VIRT_NOIF for every NEW or RENEW virt on an
\* explicit attachment of a local phys whose interface name does not resolve.
C17_PhysAttrsChecked ==
    [][last'.op = "lsdn_commit" =>
          /\ PhysAttrsReported
          /\ \A p \in DOMAIN physes : \A a \in DOMAIN pas :
                NoIface(p, a) => last'.ret = LSDNE_VALIDATE]_vars

\* C17, the part the code keeps: the reports, and no create_pa.
C17_PhysAttrsReported ==
    [][last'.op = "lsdn_commit" => PhysAttrsReported]_vars

\* the problems the validation phase of a commit on this state reports
ValidationProblems == lsdn_validate(trigger_startup_hooks(World), FALSE).problems

\* the return value of the step's commit but for the validation failure, and
\* the problem count it leaves
ReturnAndCount ==
    /\ last'.ret = LSDNE_OK <=> problems' = <<>>
    /\ ValidationProblems # <<>> => problems' = ValidationProblems
    /\ (ValidationProblems = <<>> /\ problems' # <<>>) => last'.ret = LSDNE_COMMIT
    /\ problem_count' = Len(problems')
    /\ cb_calls' = IF problem_cb' THEN Len(problems') ELSE 0

\* C18: lsdn_commit returns LSDNE_OK exactly when the call reported no problem,
\* LSDNE_VALIDATE when its validation phase reported one, and LSDNE_COMMIT when
\* only the phases after validation did; the problems are counted with or
\* without a callback, and the count starts from zero at each validation.
C18_CommitReturnValue ==
    [][(last'.op = "lsdn_commit" /\ fault' = "none") =>
          /\ ReturnAndCount
          /\ ValidationProblems # <<>> => last'.ret = LSDNE_VALIDATE]_vars

\* C18, the part the code keeps: everything but the value returned when
\* validation fails, which is only known to differ from LSDNE_OK.
C18_ReturnValueButValidate ==
    [][(last'.op = "lsdn_commit" /\ fault' = "none") => ReturnAndCount]_vars

\* attachment a of the world with the attachments ps is left over: not deleted,
\* not explicitly attached and without connected virts
LeftOver(ps, a) ==
    /\ a \in DOMAIN ps /\ ps[a].state # LSDN_STATE_DELETE
    /\ ~ps[a].explicitely_attached /\ ps[a].connected_virt_list = {}

\* C19: after every public operation no attachment that is not in state DELETE
\* is both not explicitly attached and without connected virts.
C19_NoEmptyImplicitAttachment == \A a \in DOMAIN pas : ~LeftOver(pas, a)

\* C19, the part the code keeps: a step leaves a new left-over attachment only
\* by taking the last virt off an implicit attachment while the virt stays
\* allocated (lsdn_virt_disconnect, also inside lsdn_virt_connect).
C19_LeftOverOnlyByDisconnect ==
    [][\A a \in DOMAIN pas' :
          (LeftOver(pas', a) /\ ~LeftOver(pas, a)) =>
              /\ a \in DOMAIN pas /\ ~pas[a].explicitely_attached
              /\ \E v \in pas[a].connected_virt_list :
                    v \in DOMAIN virts' /\ virts'[v].connected_through # a]_vars

\* the step is lsdn_phys_detach(p, n)
DetachStep(p, n) ==
    /\ fault = "none" /\ p \in LivePhyses /\ n \in LiveNets
    /\ Returns("lsdn_phys_detach", lsdn_phys_detach(World, p, n), LSDNE_OK)

\* attachment a is freed and waits for the commit: DELETE, detached, no virts
Detached(a) ==
    /\ pas[a].state = LSDN_STATE_DELETE
    /\ ~pas[a].explicitely_attached /\ pas[a].connected_virt_list = {}

\* the calls of destroy_pa for attachment a in the step's public call
DestroyCalls(a) == {i \in 1..Len(calls') : calls'[i].op = "destroy_pa" /\ calls'[i].arg = a}

\* C20: lsdn_phys_detach(phys, net) on an attachment without virts removes it
\* from the lists of its phys and its net at once if it was NEW and leaves it in
\* state DELETE otherwise; the next commit that returns OK then calls destroy_pa
\* for it once if its phys was committed as local, and not at all otherwise, and
\* removes it; detaching a pair that has no attachment changes nothing.
C20_DetachFrees ==
    [][/\ \A p \in DOMAIN physes : \A n \in DOMAIN nets :
            DetachStep(p, n) =>
                IF <<p, n>> \notin DOMAIN pas
                THEN UNCHANGED <<settings, nets, physes, pas, virts, rpas, rvirts>>
                ELSE pas[<<p, n>>].connected_virt_list = {} =>
                        IF pas[<<p, n>>].state = LSDN_STATE_NEW
                        THEN /\ <<p, n>> \notin DOMAIN pas'
                             /\ <<p, n>> \notin physes'[p].attached_to_list
                             /\ <<p, n>> \notin nets'[n].attached_list
                        ELSE /\ <<p, n>> \in DOMAIN pas'
                             /\ pas'[<<p, n>>].state = LSDN_STATE_DELETE
                             /\ ~pas'[<<p, n>>].explicitely_attached
       /\ \A a \in DOMAIN pas :
            (Detached(a) /\ last'.op = "lsdn_commit" /\ last'.ret = LSDNE_OK) =>
                /\ a \notin DOMAIN pas'
                /\ a[1] \in DOMAIN physes' => a \notin physes'[a[1]].attached_to_list
                /\ a[2] \in DOMAIN nets' => a \notin nets'[a[2]].attached_list
                /\ Cardinality(DestroyCalls(a)) =
                      IF physes[a[1]].commited_as_local THEN 1 ELSE 0]_vars

\* a commit returned OK after it destroyed and removed the attachment of a phys
\* and a net that both stay, with no virt around: the attachment was detached
C20_Witness ==
    /\ CommitReturnedOK /\ DOMAIN virts = {}
    /\ \E i \in 1..Len(calls) :
          /\ calls[i].op = "destroy_pa" /\ calls[i].arg \notin DOMAIN pas
          /\ calls[i].arg[1] \in LivePhyses /\ calls[i].arg[2] \in LiveNets

\* attachment a was detached and waits for its virts: not deleted, not
\* explicitly attached, with connected virts
Waiting(a) ==
    /\ pas[a].state # LSDN_STATE_DELETE
    /\ ~pas[a].explicitely_attached /\ pas[a].connected_virt_list # {}

\* the step removes every virt connected through a from the graph
VirtsGone(a) == \A v \in pas[a].connected_virt_list : v \notin DOMAIN virts'

\* the step frees attachment a: it is removed, or left in state DELETE
Freed(a) == a \notin DOMAIN pas' \/ pas'[a].state = LSDN_STATE_DELETE

ListsHolding(v) == {b \in DOMAIN pas : v \in pas[b].connected_virt_list}

\* C22: while the program runs, the connected_virt_entry of every virt is
\* linked in the list of the attachment the virt is connected through and in
\* no other, in no list at all when connected_through is NULL; that attachment
\* is allocated and belongs to the net of the virt; and the lists hold
\* allocated virts only.
C22_ConnectedThroughMatchesList ==
    fault = "none" =>
        /\ \A v \in DOMAIN virts :
              /\ ListsHolding(v) = IF virts[v].connected_through = NoPa THEN {}
                                   ELSE {virts[v].connected_through}
              /\ virts[v].connected_through # NoPa =>
                    pas[virts[v].connected_through].net = virts[v].network
        /\ \A b \in DOMAIN pas : pas[b].connected_virt_list \subseteq DOMAIN virts

\* after a commit one virt was disconnected and another connected again, now
\* through an attachment that is not the only one
C22_Witness ==
    /\ fault = "none"
    /\ \E v1, v2 \in DOMAIN virts :
          /\ v1 # v2
          /\ virts[v1].state = LSDN_STATE_RENEW /\ virts[v1].connected_through = NoPa
          /\ virts[v2].state = LSDN_STATE_RENEW /\ virts[v2].connected_through # NoPa
          /\ \E b \in DOMAIN pas : b # virts[v2].connected_through

\* the step is lsdn_phys_attach(p, n)
AttachStep(p, n) ==
    /\ fault = "none" /\ p \in LivePhyses /\ n \in LiveNets
    /\ Returns("lsdn_phys_attach", lsdn_phys_attach(World, p, n), LSDNE_OK)

\* the step is lsdn_virt_connect(v, p, iface)
ConnectStep(v, p, iface) ==
    /\ fault = "none" /\ v \in LiveVirts /\ p \in LivePhyses
    /\ Returns("lsdn_virt_connect", lsdn_virt_connect(World, v, p, iface, TRUE), LSDNE_OK)

\* every allocated attachment is on the list of its phys and of its net, and
\* the lists hold nothing else
AttachmentsLinked ==
    /\ \A p \in DOMAIN physes :
          physes[p].attached_to_list = {a \in DOMAIN pas : pas[a].phys = p}
    /\ \A n \in DOMAIN nets :
          nets[n].attached_list = {a \in DOMAIN pas : pas[a].net = n}
    /\ \A a \in DOMAIN pas : pas[a].phys \in DOMAIN physes /\ pas[a].net \in DOMAIN nets

\* C23: while the program runs every attachment is linked in the list of its
\* own phys and of its own net and in no other, and lsdn_phys_attach and
\* lsdn_virt_connect on a pair that has an attachment go on with that object,
\* state and virts as they were, and allocate no other for the pair.
C23_OneAttachmentPerPair ==
    [][/\ fault' = "none" => AttachmentsLinked'
       /\ \A p \in DOMAIN physes : \A n \in DOMAIN nets :
            (AttachStep(p, n) /\ <<p, n>> \in DOMAIN pas) =>
                /\ pas' = [pas EXCEPT ![<<p, n>>].explicitely_attached = TRUE]
                /\ physes' = physes /\ nets' = nets
       /\ \A v \in DOMAIN virts : \A p \in DOMAIN physes : \A iface \in VirtIfaces :
            (ConnectStep(v, p, iface) /\ <<p, virts[v].network>> \in DOMAIN pas) =>
                /\ DOMAIN pas' = DOMAIN pas
                /\ pas'[<<p, virts[v].network>>] =
                      [pas[<<p, virts[v].network>>] EXCEPT !.connected_virt_list = @ \cup {v}]
                /\ physes' = physes
                /\ \A n \in DOMAIN nets : nets'[n].attached_list = nets[n].attached_list]_vars

\* a committed, explicitly attached attachment holds two virts, one of them
\* connected after the commit
C23_Witness ==
    /\ fault = "none"
    /\ \E a \in DOMAIN pas : \E v1, v2 \in pas[a].connected_virt_list :
          /\ pas[a].state = LSDN_STATE_OK /\ pas[a].explicitely_attached
          /\ virts[v1].state = LSDN_STATE_OK /\ virts[v2].state = LSDN_STATE_RENEW

\* the step is lsdn_virt_free(v), lsdn_net_free(n), lsdn_phys_free(p) or
\* lsdn_settings_free(s)
VirtFreeStep(v) ==
    /\ fault = "none" /\ v \in LiveVirts
    /\ Returns("lsdn_virt_free", lsdn_virt_free(World, v), LSDNE_OK)

NetFreeStep(n) ==
    /\ fault = "none" /\ n \in LiveNets
    /\ Returns("lsdn_net_free", lsdn_net_free(World, n), LSDNE_OK)

PhysFreeStep(p) ==
    /\ fault = "none" /\ p \in LivePhyses
    /\ Returns("lsdn_phys_free", lsdn_phys_free(World, p), LSDNE_OK)

SettingsFreeStep(s) ==
    /\ fault = "none" /\ s \in LiveSettings
    /\ Returns("lsdn_settings_free", lsdn_settings_free(World, s), LSDNE_OK)

\* what the driver still holds for virt v, attachment a: outstanding calls
\* and remote views, after the step
DriverHoldsVirt(v) ==
    \/ \E e \in DOMAIN dp_virt' : e[1] = v
    \/ \E e \in DOMAIN dp_rvirt' : e[3] = v
    \/ \E e \in DOMAIN rvirts' : e[3] = v

DriverHoldsPa(a) ==
    \/ a \in DOMAIN dp_pa'
    \/ \E e \in DOMAIN dp_rpa' \cup DOMAIN rpas' : e[1] = a \/ e[2] = a
    \/ \E e \in DOMAIN dp_virt' : e[2] = a

\* the step freed an object that was in state `state': a NEW object is gone
\* and no hook was called; any other is still there (`there'), in state `after'
FreedAs(state, gone, there, after) ==
    IF state = LSDN_STATE_NEW THEN gone /\ calls' = <<>>
    ELSE there /\ after = LSDN_STATE_DELETE

\* what a free and a commit do in a step, by the state of the object: a NEW
\* object is gone at once with no hook called and nothing left with the
\* driver, any other stays in state DELETE, and a commit that returns OK
\* removes every object in state DELETE and leaves nothing of it with the driver
FreeByState ==
        /\ \A v \in DOMAIN virts : VirtFreeStep(v) =>
              /\ FreedAs(virts[v].state, v \notin DOMAIN virts', v \in DOMAIN virts',
                         virts'[v].state)
              /\ virts[v].state = LSDN_STATE_NEW => ~DriverHoldsVirt(v)
        /\ \A n \in DOMAIN nets : NetFreeStep(n) =>
              FreedAs(nets[n].state, n \notin DOMAIN nets', n \in DOMAIN nets', nets'[n].state)
        /\ \A p \in DOMAIN physes : PhysFreeStep(p) =>
              FreedAs(physes[p].state, p \notin DOMAIN physes', p \in DOMAIN physes',
                      physes'[p].state)
        /\ \A s \in DOMAIN settings : SettingsFreeStep(s) =>
              FreedAs(settings[s].state, s \notin DOMAIN settings', s \in DOMAIN settings',
                      settings'[s].state)
        /\ \A p \in DOMAIN physes : \A n \in DOMAIN nets :
              (/\ DetachStep(p, n) /\ <<p, n>> \in DOMAIN pas
               /\ pas[<<p, n>>].connected_virt_list = {}) =>
                  /\ FreedAs(pas[<<p, n>>].state, <<p, n>> \notin DOMAIN pas',
                             <<p, n>> \in DOMAIN pas', pas'[<<p, n>>].state)
                  /\ pas[<<p, n>>].state = LSDN_STATE_NEW => ~DriverHoldsPa(<<p, n>>)
        /\ (last'.op = "lsdn_commit" /\ last'.ret = LSDNE_OK) =>
              /\ \A v \in DOMAIN virts : virts[v].state = LSDN_STATE_DELETE =>
                    v \notin DOMAIN virts' /\ ~DriverHoldsVirt(v)
              /\ \A a \in DOMAIN pas : pas[a].state = LSDN_STATE_DELETE =>
                    a \notin DOMAIN pas' /\ ~DriverHoldsPa(a)
              /\ \A n \in DOMAIN nets : nets[n].state = LSDN_STATE_DELETE =>
                    n \notin DOMAIN nets'
              /\ \A p \in DOMAIN physes : physes[p].state = LSDN_STATE_DELETE =>
                    p \notin DOMAIN physes'
              /\ \A s \in DOMAIN settings : settings[s].state = LSDN_STATE_DELETE =>
                    s \notin DOMAIN settings'

\* C24: every free removes an object in state NEW from the graph at once, with
\* no driver call then or later, and leaves an object in state OK or RENEW in
\* the graph in state DELETE until the next commit that returns OK removes it.
C24_EveryFreeByState == [][FreeByState]_vars

\* C24, the part the code keeps: a free that returns does so.
C24_FreeByState == [][fault' = "none" => FreeByState]_vars

\* the changes of state the lifecycle allows between two boundaries
LifecycleSteps ==
    {<<LSDN_STATE_NEW, LSDN_STATE_OK>>, <<LSDN_STATE_OK, LSDN_STATE_RENEW>>,
     <<LSDN_STATE_RENEW, LSDN_STATE_OK>>, <<LSDN_STATE_NEW, LSDN_STATE_DELETE>>,
     <<LSDN_STATE_OK, LSDN_STATE_DELETE>>, <<LSDN_STATE_RENEW, LSDN_STATE_DELETE>>}

\* the state of an object goes from `from' to `to' in a step
LifecycleStep(from, to) == from = to \/ <<from, to>> \in LifecycleSteps

\* C25: from the return of one public call to the return of the next the state
\* of every object that stays allocated is unchanged or goes NEW to OK, OK to
\* RENEW, RENEW to OK, or from NEW, OK or RENEW to DELETE; in particular an
\* object in state DELETE stays in DELETE until it is deallocated.
C25_Lifecycle ==
    [][fault' = "none" =>
        /\ \A s \in DOMAIN settings \cap DOMAIN settings' :
              LifecycleStep(settings[s].state, settings'[s].state)
        /\ \A n \in DOMAIN nets \cap DOMAIN nets' :
              LifecycleStep(nets[n].state, nets'[n].state)
        /\ \A p \in DOMAIN physes \cap DOMAIN physes' :
              LifecycleStep(physes[p].state, physes'[p].state)
        /\ \A a \in DOMAIN pas \cap DOMAIN pas' :
              LifecycleStep(pas[a].state, pas'[a].state)
        /\ \A v \in DOMAIN virts \cap DOMAIN virts' :
              LifecycleStep(virts[v].state, virts'[v].state)]_vars

\* a commit that failed its validation left one object in DELETE, one in
\* RENEW and one in NEW
C25_Witness ==
    /\ last.op = "lsdn_commit" /\ last.ret # LSDNE_OK /\ fault = "none"
    /\ {LSDN_STATE_DELETE, LSDN_STATE_RENEW, LSDN_STATE_NEW} \subseteq AllObjectStates

\* a hook was called that the vtable of the net does not set
CalledAbsent ==
    \E i \in 1..Len(calls) :
        /\ calls[i].op \in AllHooks
        /\ \E s \in DOMAIN settings : calls[i].op \notin settings[s].ops

\* C26: whatever hooks the vtable of a nettype leaves unset, validation and
\* commit call no absent hook and never call through a NULL pointer.
C26_AbsentHooksSkipped == fault # "null:hook" /\ ~CalledAbsent

\* the world with every hook set in every vtable
WithAllHooks(w) ==
    [w EXCEPT !.settings = [s \in DOMAIN @ |-> [@[s] EXCEPT !.ops = AllHooks]]]

\* what the hooks in `ops' and the engine itself are called with, in order
CallsThrough(cs, ops) ==
    LET kept == SelectSeq(cs, LAMBDA e : e.op \notin AllHooks \/ e.op \in ops)
    IN [i \in 1..Len(kept) |-> <<kept[i].op, kept[i].arg>>]

\* the hooks every vtable of the model sets
HooksSet == {h \in AllHooks : \A s \in DOMAIN settings : h \in settings[s].ops}

\* C26, the part the code keeps: with the vtable setting create_pa, a commit
\* calls no absent hook and leaves the objects, the views, the problems and
\* the calls of the present hooks as the commit of a nettype with every hook
\* does; a commit stops on a NULL pointer only where create_pa is absent.
C26_AbsentHooksSkippedButCreatePa ==
    [][last'.op = "lsdn_commit" =>
        LET full == lsdn_commit(WithAllHooks(World), TRUE).w
        IN IF fault' = "null:hook" THEN "create_pa" \notin HooksSet
           ELSE /\ fault' = full.fault
                /\ nets' = full.nets /\ physes' = full.physes /\ pas' = full.pas
                /\ virts' = full.virts /\ rpas' = full.rpas /\ rvirts' = full.rvirts
                /\ problems' = full.problems
                /\ DOMAIN settings' = DOMAIN full.settings
                /\ \A s \in DOMAIN settings' : settings'[s].state = full.settings[s].state
                /\ CallsThrough(calls', AllHooks) = CallsThrough(full.calls, HooksSet)
                /\ \A i \in 1..Len(calls') :
                      calls'[i].op \in AllHooks => calls'[i].op \in HooksSet]_vars

\* a commit of a nettype without add_remote_virt went through and left a
\* remote virt in the views
C26_Witness ==
    /\ last.op = "lsdn_commit" /\ last.ret = LSDNE_OK /\ fault = "none"
    /\ "add_remote_virt" \notin HooksSet
    /\ rvirts # EmptyBag

\* a call other than a commit has returned an error in this step
FailedCall == last'.op = "other" /\ last'.ret \in {LSDNE_NOMEM, "NOIF"}

\* C27: a mutation that returns an error leaves settings, nets, physes,
\* attachments and virts as they were before the call.
C27_FailedCallChangesNothing ==
    [][FailedCall =>
        /\ settings' = settings /\ nets' = nets /\ physes' = physes
        /\ pas' = pas /\ virts' = virts]_vars

\* C27, the part the code keeps: a call that returns an error leaves every
\* virt, every settings object and every attachment there was as it found
\* them; all it may add is attachments in state NEW, not explicitly attached
\* and with no virt, on the lists of their phys and net.
C27_FailedCallKeepsVirts ==
    [][FailedCall =>
        /\ settings' = settings /\ virts' = virts
        /\ DOMAIN pas \subseteq DOMAIN pas'
        /\ \A a \in DOMAIN pas : pas'[a] = pas[a]
        /\ \A a \in DOMAIN pas' \ DOMAIN pas :
              /\ pas'[a].state = LSDN_STATE_NEW
              /\ ~pas'[a].explicitely_attached
              /\ pas'[a].connected_virt_list = {}
        /\ physes' = [p \in DOMAIN physes |->
                        [physes[p] EXCEPT !.attached_to_list =
                            @ \cup {a \in DOMAIN pas' \ DOMAIN pas : a[1] = p}]]
        /\ nets' = [n \in DOMAIN nets |->
                      [nets[n] EXCEPT !.attached_list =
                          @ \cup {a \in DOMAIN pas' \ DOMAIN pas : a[2] = n}]]]_vars

\* the netlink operations the direct driver issues for one hook call
NetlinkOf(e, dd) ==
    IF e.op = "destroy_pa" THEN direct_destroy_pa(dd, e.arg)
    ELSE IF e.op = "remove_virt" THEN lsdn_lbridge_remove_virt(dd, e.arg[1])
    ELSE <<>>

\* the link-delete and set-master operations of a sequence of hook calls
RECURSIVE Netlink(_, _)
Netlink(cs, dd) == IF cs = <<>> THEN <<>> ELSE NetlinkOf(Head(cs), dd) \o Netlink(Tail(cs), dd)

\* the netlink operation `nl' was issued during the call that ends in this step
Issued(nl) == \E i \in DOMAIN Netlink(calls', disable_decommit') :
                  Netlink(calls', disable_decommit')[i] = nl

\* no object of the model is allocated after the step
AllFreed ==
    /\ DOMAIN settings' = {} /\ DOMAIN nets' = {} /\ DOMAIN physes' = {}
    /\ DOMAIN pas' = {} /\ DOMAIN virts' = {}

\* C28: lsdn_context_free deallocates every object and the direct driver
\* issues no link-delete and no set-master operation during it;
\* lsdn_context_cleanup deallocates every object too, and the driver deletes
\* the bridge and the tunnel interface of every attachment it had created and
\* takes every virt it had added off its bridge.
C28_FreeKeepsKernel ==
    [][/\ last'.op = "lsdn_context_free" =>
             fault' = "none" /\ AllFreed /\ Netlink(calls', disable_decommit') = <<>>
       /\ last'.op = "lsdn_context_cleanup" =>
             /\ fault' = "none" /\ AllFreed
             /\ \A a \in BagToSet(dp_pa) :
                   /\ Issued([op |-> "lsdn_link_delete", iface |-> <<"bridge_if", a>>])
                   /\ Issued([op |-> "lsdn_link_delete", iface |-> <<"tunnel_if", a>>])
                   /\ Issued([op |-> "lsdn_link_set_master", master |-> 0,
                               iface |-> <<"tunnel_if", a>>])
             /\ \A x \in BagToSet(dp_virt) :
                   Issued([op |-> "lsdn_link_set_master", master |-> 0,
                           iface |-> <<"committed_if", x[1]>>])]_vars

\* C28, the part the code keeps: an lsdn_context_free that is not stopped by
\* an assertion deallocates every object and issues no link-delete and no
\* set-master operation, and one that is stopped has issued none either; an
\* lsdn_context_cleanup that is not stopped deallocates every object and issues
\* the operations for every attachment created and every virt added.
C28_FreeKeepsKernelUnlessStopped ==
    [][/\ last'.op = "lsdn_context_free" =>
             /\ Netlink(calls', disable_decommit') = <<>>
             /\ fault' = "none" => AllFreed
       /\ last'.op = "lsdn_context_cleanup" /\ fault' = "none" =>
             /\ AllFreed
             /\ \A a \in BagToSet(dp_pa) :
                   /\ Issued([op |-> "lsdn_link_delete", iface |-> <<"bridge_if", a>>])
                   /\ Issued([op |-> "lsdn_link_delete", iface |-> <<"tunnel_if", a>>])
                   /\ Issued([op |-> "lsdn_link_set_master", master |-> 0,
                               iface |-> <<"tunnel_if", a>>])
             /\ \A x \in BagToSet(dp_virt) :
                   Issued([op |-> "lsdn_link_set_master", master |-> 0,
                           iface |-> <<"committed_if", x[1]>>])]_vars

\* nothing is left with the driver after the step: no outstanding create_pa,
\* add_virt, add_remote_pa or add_remote_virt, and no remote view
DriverEmpty ==
    /\ dp_pa' = EmptyBag /\ dp_virt' = EmptyBag /\ dp_rpa' = EmptyBag /\ dp_rvirt' = EmptyBag
    /\ rpas' = EmptyBag /\ rvirts' = EmptyBag

\* C29: lsdn_context_cleanup violates no assertion in any state, and when it
\* has finished every outstanding create_pa, add_virt, add_remote_pa and
\* add_remote_virt has been answered by its remove hook, every remote view is
\* gone and every settings, net, phys, attachment and virt is deallocated.
C29_CleanupTearsDown ==
    [][last'.op = "lsdn_context_cleanup" => fault' = "none" /\ AllFreed /\ DriverEmpty]_vars

\* C29, the part the code keeps: an lsdn_context_cleanup that no assertion
\* stops leaves nothing with the driver and nothing allocated, and the only
\* assertion that stops one is that of renew.
C29_CleanupTearsDownUnlessStopped ==
    [][last'.op = "lsdn_context_cleanup" =>
          IF fault' = "none" THEN AllFreed /\ DriverEmpty ELSE fault' = "assert:renew"]_vars

\* the object is freed after the step: deallocated or in state DELETE
FreedIn(objs, x) == x \notin DOMAIN objs \/ objs[x].state = LSDN_STATE_DELETE

\* C30: no execution violates the assertions of settings_do_free and
\* net_do_free; lsdn_settings_free leaves every net of the settings freed,
\* lsdn_net_free leaves every virt of the net freed and no attachment of it
\* explicitly attached; when a settings object is deallocated no net uses it,
\* and when a net is deallocated it has no attachment and no virt.
C30_OwnersAfterDependents ==
    [][/\ fault' \notin {"assert:settings_do_free:setting_users_list",
                          "assert:net_do_free:attached_list", "assert:net_do_free:virt_list"}
       /\ \A s \in DOMAIN settings : SettingsFreeStep(s) =>
             /\ fault' = "none"
             /\ \A n \in settings[s].setting_users_list : FreedIn(nets', n)
       /\ \A n \in DOMAIN nets : NetFreeStep(n) =>
             /\ fault' = "none"
             /\ \A v \in nets[n].virt_list : FreedIn(virts', v)
             /\ \A a \in nets[n].attached_list :
                   a \notin DOMAIN pas' \/ ~pas'[a].explicitely_attached
       /\ \A s \in DOMAIN settings \ DOMAIN settings' :
             /\ \A n \in settings[s].setting_users_list : n \notin DOMAIN nets'
             /\ \A n \in DOMAIN nets' : nets'[n].settings # s
       /\ \A n \in DOMAIN nets \ DOMAIN nets' :
             /\ \A a \in DOMAIN pas' : a[2] # n
             /\ \A v \in DOMAIN virts' : virts'[v].network # n
             /\ \A a \in nets[n].attached_list : a \notin DOMAIN pas'
             /\ \A v \in nets[n].virt_list : v \notin DOMAIN virts']_vars

\* a commit has deallocated the settings object, its two nets, a virt and an
\* attachment that the free of the settings had left in state DELETE
C30_Witness ==
    /\ CommitReturnedOK
    /\ DOMAIN settings = {} /\ DOMAIN nets = {} /\ DOMAIN virts = {} /\ DOMAIN pas = {}
    /\ Called("remove_virt") /\ Called("destroy_pa")

\* the attachments the startup hook is due for when a commit starts: those on
\* the list of a local phys whose net's settings have registered the hook
HookDue ==
    {a \in DOMAIN pas : /\ physes[a[1]].is_local
                         /\ a \in physes[a[1]].attached_to_list
                         /\ settings[nets[a[2]].settings].user_hooks}

\* C31: every commit, whether or not its validation fails, calls the startup
\* hook exactly once with (net, phys) for every attachment on the list of a
\* local phys whose net's settings register the hook, calls it for nothing
\* else, and calls it before every validation hook, driver hook and
\* acknowledgement.
C31_StartupHooks ==
    [][last'.op = "lsdn_commit" =>
        /\ \A a \in HookDue :
              Len(SelectSeq(calls', LAMBDA e : e.op = "lsdn_startup_hook"
                                                /\ e.arg = <<a[2], a[1]>>)) = 1
        /\ \A i \in 1..Len(calls') : calls'[i].op = "lsdn_startup_hook" =>
              /\ <<calls'[i].arg[2], calls'[i].arg[1]>> \in HookDue
              /\ \A j \in 1..(i - 1) : calls'[j].op = "lsdn_startup_hook"]_vars

\* a commit whose validation failed has called the startup hook, with an
\* attachment of a phys that is not local in the model
C31_Witness ==
    /\ last.op = "lsdn_commit" /\ last.ret # LSDNE_OK /\ fault = "none" /\ problems # <<>>
    /\ Called("lsdn_startup_hook") /\ Called("validate_pa")
    /\ \E p \in DOMAIN physes : ~physes[p].is_local /\ physes[p].attached_to_list # {}

\* in the world w no attachment is OK under a RENEW phys or net and no
\* connected virt is OK under a RENEW attachment
PropagationClosed(w) ==
    /\ \A a \in DOMAIN w.pas : w.pas[a].state = LSDN_STATE_OK =>
          /\ w.physes[w.pas[a].phys].state # LSDN_STATE_RENEW
          /\ w.nets[w.pas[a].net].state # LSDN_STATE_RENEW
    /\ \A v \in DOMAIN w.virts :
          (w.virts[v].state = LSDN_STATE_OK /\ w.virts[v].connected_through # NoPa) =>
              w.pas[w.virts[v].connected_through].state # LSDN_STATE_RENEW

\* the hook `first' was called with x and the hook `second' with x after it
CalledInOrder(first, second, x) ==
    \E i, j \in 1..Len(calls') :
        /\ i < j
        /\ calls'[i].op = first /\ calls'[i].arg = x
        /\ calls'[j].op = second /\ calls'[j].arg = x

\* C32: the propagation loops of validation leave no attachment in state OK
\* under a RENEW phys or net and no connected virt in state OK under a RENEW
\* attachment; so a commit that returns OK while a local phys is RENEW calls
\* destroy_pa and then create_pa for every attachment of that phys the driver
\* has created, and remove_virt and then add_virt for every virt it has added
\* on them, where the attachment and the virt outlive the commit.
C32_PropagationComplete ==
    [][/\ fault = "none" => PropagationClosed(propagate_states(World))
       /\ (last'.op = "lsdn_commit" /\ last'.ret = LSDNE_OK) =>
             \A a \in DOMAIN pas \cap DOMAIN dp_pa :
                 (/\ physes[a[1]].is_local /\ physes[a[1]].state = LSDN_STATE_RENEW
                  /\ a \in DOMAIN pas') =>
                     /\ CalledInOrder("destroy_pa", "create_pa", a)
                     /\ \A v \in pas[a].connected_virt_list :
                           (<<v, a>> \in DOMAIN dp_virt /\ v \in DOMAIN virts') =>
                               CalledInOrder("remove_virt", "add_virt", <<v, a>>)]_vars

\* a commit that returned OK lifted a phys that had been committed before,
\* destroyed one of its attachments and removed a virt on it
C32_Witness ==
    /\ CommitReturnedOK /\ fault = "none"
    /\ \E a \in DOMAIN pas : \E v \in pas[a].connected_virt_list :
          \E i, j, k, l \in 1..Len(calls) :
              /\ physes[a[1]].is_local
              /\ calls[i].op = "destroy_pa" /\ calls[i].arg = a
              /\ calls[j].op = "remove_virt" /\ calls[j].arg = <<v, a>>
              /\ calls[k].op = "ack_state" /\ calls[k].arg = <<"phys", a[1]>>
              /\ calls[l].op = "add_virt" /\ calls[l].arg = <<v, a>>

\* the lifecycle states the hook call e may be made for, given the states of
\* the objects after the propagation loops (the world P): remove hooks for
\* objects RENEW or DELETE, create and add hooks for objects NEW or, once
\* un-committed, RENEW
HookStates(e, P) ==
    LET old == {LSDN_STATE_RENEW, LSDN_STATE_DELETE}
        new == {LSDN_STATE_NEW, LSDN_STATE_RENEW}
    IN CASE e.op = "create_pa" -> P.pas[e.arg].state \in new
         [] e.op = "destroy_pa" -> P.pas[e.arg].state \in old
         [] e.op = "add_virt" -> P.virts[e.arg[1]].state \in new
         [] e.op = "remove_virt" -> P.virts[e.arg[1]].state \in old
         [] e.op = "add_remote_virt" -> P.virts[e.arg[3]].state \in new
         [] e.op = "remove_remote_virt" -> P.virts[e.arg[3]].state \in old
         [] e.op = "add_remote_pa" -> P.pas[e.arg[2]].state \in new
         [] e.op = "remove_remote_pa" ->
                P.pas[e.arg[1]].state \in old \/ P.pas[e.arg[2]].state \in old
         [] OTHER -> TRUE

\* C33: a commit that returns OK calls no virt hook for a virt and no
\* create_pa or destroy_pa for an attachment that is OK after propagation:
\* remove hooks are called only for objects RENEW or DELETE after propagation,
\* create and add hooks only for objects NEW or RENEW after it.
C33_OnlyDelta ==
    [][(last'.op = "lsdn_commit" /\ last'.ret = LSDNE_OK /\ fault' = "none") =>
          \A i \in 1..Len(calls') : HookStates(calls'[i], propagate_states(World))]_vars

\* the attachment a is one the decommit phase marks DELETE itself: it is not
\* explicitly attached and every virt connected through it is in DELETE, so
\* virt_do_free of the last of them releases it
ReleasedByVirts(P, a) ==
    /\ ~P.pas[a].explicitely_attached
    /\ P.pas[a].connected_virt_list # {}
    /\ \A v \in P.pas[a].connected_virt_list : P.virts[v].state = LSDN_STATE_DELETE

\* the attachment a is taken out of the driver by this commit
Leaving(P, a) ==
    P.pas[a].state \in {LSDN_STATE_RENEW, LSDN_STATE_DELETE} \/ ReleasedByVirts(P, a)

\* C33 as the code has it: a commit that returns OK calls the hooks only for
\* the delta, where an attachment that is OK after propagation also counts as
\* deleted if it is implicit and all its virts are in DELETE (the decommit
\* phase marks it DELETE when it deallocates the last virt).
C33_OnlyDeltaWithReleased ==
    [][(last'.op = "lsdn_commit" /\ last'.ret = LSDNE_OK /\ fault' = "none") =>
          \A i \in 1..Len(calls') :
              LET e == calls'[i]
                  P == propagate_states(World)
              IN CASE e.op = "destroy_pa" -> Leaving(P, e.arg)
                   [] e.op = "remove_remote_pa" -> Leaving(P, e.arg[1]) \/ Leaving(P, e.arg[2])
                   [] OTHER -> HookStates(e, P)]_vars

\* a commit that returned OK destroyed and deallocated an attachment the
\* driver had created and removed a virt from it, while the phys of the
\* attachment was not renewed: the attachment was OK after propagation
C33_Witness ==
    /\ CommitReturnedOK /\ fault = "none"
    /\ \E i, j \in 1..Len(calls) :
          /\ calls[i].op = "remove_virt" /\ calls[j].op = "destroy_pa"
          /\ calls[i].arg[2] = calls[j].arg
          /\ calls[j].arg \in DOMAIN calls[j].before.pa
          /\ calls[j].arg \notin DOMAIN pas
          /\ calls[j].arg[1] \in DOMAIN physes
          /\ ~Called("ack_state")

\* the attributes of phys p that a commit puts in the data plane differ after the
\* step
PhysMutated(p) ==
    \/ physes'[p].is_local # physes[p].is_local
    \/ physes'[p].attr_iface # physes[p].attr_iface
    \/ physes'[p].attr_ip # physes[p].attr_ip

LocalMutated(p) == physes'[p].is_local # physes[p].is_local

VirtMutated(v) ==
    \/ virts'[v].connected_through # virts[v].connected_through
    \/ virts'[v].connected_if # virts[v].connected_if

\* the calls that have nothing to change leave the whole model as it is
NoOpCalls ==
    \A p \in LivePhyses :
       /\ physes[p].is_local => lsdn_phys_claim_local(World, p) = World
       /\ ~physes[p].is_local => lsdn_phys_unclaim_local(World, p) = World

\* C34: every call that changes is_local, the iface or the ip of a phys in state
\* OK, or the connection of a virt in state OK, moves the object to RENEW;
\* lsdn_phys_claim_local on a local phys and lsdn_phys_unclaim_local on a phys
\* that is not local change nothing.
C34_MutationRenews ==
    [][/\ \A p \in DOMAIN physes \cap DOMAIN physes' :
             (physes[p].state = LSDN_STATE_OK /\ PhysMutated(p))
             => physes'[p].state = LSDN_STATE_RENEW
       /\ \A v \in DOMAIN virts \cap DOMAIN virts' :
             (virts[v].state = LSDN_STATE_OK /\ VirtMutated(v))
             => virts'[v].state = LSDN_STATE_RENEW
       /\ NoOpCalls]_vars

\* C34, the part the code keeps: the sentence for is_local and for the
\* connection of a virt, and the calls that change nothing.
C34_LocalAndConnectionRenew ==
    [][/\ \A p \in DOMAIN physes \cap DOMAIN physes' :
             (physes[p].state = LSDN_STATE_OK /\ LocalMutated(p))
             => physes'[p].state = LSDN_STATE_RENEW
       /\ \A v \in DOMAIN virts \cap DOMAIN virts' :
             (virts[v].state = LSDN_STATE_OK /\ VirtMutated(v))
             => virts'[v].state = LSDN_STATE_RENEW
       /\ NoOpCalls]_vars

\* the entries whose callback the last call invoked, in order
CallbacksOf(cs) == SelectSeq(cs, LAMBDA ev : ev.op = "cb")
CallbackArgs(cs) == [i \in DOMAIN CallbacksOf(cs) |-> CallbacksOf(cs)[i].arg]

\* no entry is twice in one list, nor in two lists of one index
LinkedOnce ==
    /\ \A c \in DOMAIN clists : \A i, j \in DOMAIN clists[c].cleanup_list :
          clists[c].cleanup_list[i] = clists[c].cleanup_list[j] => i = j
    /\ \A c, d \in DOMAIN clists :
          (c # d /\ clists[c].clist_index = clists[d].clist_index)
          => \A i \in DOMAIN clists[c].cleanup_list, j \in DOMAIN clists[d].cleanup_list :
                clists[c].cleanup_list[i] # clists[d].cleanup_list[j]

\* the step is lsdn_clist_flush(c) as the claim describes it
Flushed(c) ==
    /\ CallbackArgs(calls') = clists[c].cleanup_list
    /\ clists'[c].cleanup_list = <<>>
    /\ \A d \in DOMAIN clists' : \A i \in DOMAIN clists'[d].cleanup_list :
          /\ \A k \in DOMAIN clists[c].cleanup_list :
                clists'[d].cleanup_list[i] # clists[c].cleanup_list[k]
          /\ \E k \in DOMAIN clists[d].cleanup_list :
                clists'[d].cleanup_list[i] = clists[d].cleanup_list[k]

\* C35: an entry is linked at most once into a clist (and into one clist per
\* index); lsdn_clist_flush invokes the callback of every entry of the list once,
\* leaves the list empty and leaves the entries it called in no clist at all, so
\* that no later flush calls them again.
C35_ClistFlush ==
    [][/\ LinkedOnce'
       /\ last'.op = "lsdn_clist_flush" => \E c \in DOMAIN clists : Flushed(c)
       /\ last'.op # "lsdn_clist_flush" => CallbackArgs(calls') = <<>>]_vars

\* a flush has called an entry that it took off another clist as well
C35_Witness ==
    /\ last.op = "lsdn_clist_flush" /\ fault = "none"
    /\ \E i, j, k \in DOMAIN calls :
          /\ i < j /\ j < k
          /\ calls[i].op = "lsdn_list_remove" /\ calls[j].op = "lsdn_list_remove"
          /\ calls[i].arg[1] = calls[k].arg /\ calls[j].arg[1] = calls[k].arg
          /\ calls[i].arg[2] # calls[j].arg[2]
          /\ calls[k].op = "cb"
    /\ \E c \in DOMAIN clists : clists[c].cleanup_list # <<>>

\* C36: for each attachment the calls of create_pa and destroy_pa alternate,
\* starting with create_pa: destroy_pa is called only for an attachment with an
\* outstanding create_pa, and create_pa only for one with none.
C36_CreateDestroyAlternate ==
    [][\A i \in DOMAIN calls' :
          /\ calls'[i].op = "create_pa" => BagCount(calls'[i].before.pa, calls'[i].arg) = 0
          /\ calls'[i].op = "destroy_pa" => BagCount(calls'[i].before.pa, calls'[i].arg) = 1]_vars

\* C36, the part the code keeps: create_pa is never called for an attachment
\* that has an outstanding create_pa.
C36_NoDoubleCreate ==
    [][\A i \in DOMAIN calls' :
          calls'[i].op = "create_pa" => BagCount(calls'[i].before.pa, calls'[i].arg) = 0]_vars

\* C37: no sequence of public calls on objects the user has not freed reaches
\* renew() on a state that is DELETE.
C37_RenewPrecondition == fault # "assert:renew"

\* C37, the part the code keeps: renew() is reached on a DELETE state only by
\* lsdn_phys_free of a phys through which a freed virt is still connected.
C37_RenewOnDeleteOnlyInPhysFree ==
    [][(fault = "none" /\ fault' = "assert:renew") =>
          \E p \in LivePhyses :
             /\ PhysFreeStep(p)
             /\ \E v \in DOMAIN virts :
                   /\ virts[v].state = LSDN_STATE_DELETE
                   /\ virts[v].connected_through # NoPa
                   /\ virts[v].connected_through[1] = p]_vars

\* C38: an attachment that is deallocated has no connected virt and is not
\* explicitly attached: the assertions of pa_do_free never fail.
C38_PaFreeAssertions ==
    fault \notin {"assert:pa_do_free:connected_virt_list",
                  "assert:pa_do_free:explicitely_attached"}

\* C38, the part the code keeps: an assertion of pa_do_free fails only in a
\* commit, for an attachment that was attached again, or connected through, while
\* it was in state DELETE.
C38_PaFreeAssertionsUnlessReused ==
    [][(fault = "none" /\ ~C38_PaFreeAssertions') =>
          /\ last'.op = "lsdn_commit"
          /\ \E a \in DOMAIN pas :
                /\ pas[a].state = LSDN_STATE_DELETE
                /\ \/ fault' = "assert:pa_do_free:explicitely_attached"
                         /\ pas[a].explicitely_attached
                   \/ fault' = "assert:pa_do_free:connected_virt_list"
                         /\ \E v \in pas[a].connected_virt_list :
                               virts[v].state # LSDN_STATE_DELETE]_vars

\* the commit that returned was stopped by validation and returned LSDNE_VALIDATE
ReturnedValidate == last'.op = "lsdn_commit" /\ last'.ret = LSDNE_VALIDATE

\* C39: a commit that returns VALIDATE changes the objects only by the
\* propagation of RENEW (to attachments of a RENEW phys or net, to virts
\* connected through a RENEW attachment): it acknowledges, un-commits and frees
\* nothing and no view or artifact changes; the marks it leaves are acted on by
\* the next commit that returns OK, which leaves no object in RENEW and destroys
\* every RENEW attachment that has an outstanding create_pa.
C39_FailedValidationOnlyPropagates ==
    [][/\ ReturnedValidate =>
             /\ settings' = propagate_states(World).settings
             /\ nets' = propagate_states(World).nets
             /\ physes' = propagate_states(World).physes
             /\ pas' = propagate_states(World).pas
             /\ virts' = propagate_states(World).virts
             /\ \A a \in DOMAIN pas :
                   pas'[a].state # pas[a].state =>
                      /\ pas[a].state = LSDN_STATE_OK /\ pas'[a].state = LSDN_STATE_RENEW
                      /\ \/ physes[a[1]].state = LSDN_STATE_RENEW
                         \/ nets[a[2]].state = LSDN_STATE_RENEW
             /\ \A v \in DOMAIN virts :
                   virts'[v].state # virts[v].state =>
                      /\ virts[v].state = LSDN_STATE_OK /\ virts'[v].state = LSDN_STATE_RENEW
                      /\ virts[v].connected_through # NoPa
                      /\ pas'[virts[v].connected_through].state = LSDN_STATE_RENEW
             /\ rpas' = rpas /\ rvirts' = rvirts
             /\ dp_pa' = dp_pa /\ dp_virt' = dp_virt
             /\ dp_rpa' = dp_rpa /\ dp_rvirt' = dp_rvirt
             /\ \A i \in DOMAIN calls' : calls'[i].op = "lsdn_startup_hook"
       /\ (last'.op = "lsdn_commit" /\ last'.ret = LSDNE_OK) =>
             /\ \A a \in DOMAIN pas' : pas'[a].state = LSDN_STATE_OK
             /\ \A v \in DOMAIN virts' : virts'[v].state = LSDN_STATE_OK
             /\ \A p \in DOMAIN physes' : physes'[p].state = LSDN_STATE_OK
             /\ \A a \in DOMAIN pas :
                   (pas[a].state = LSDN_STATE_RENEW /\ BagCount(dp_pa, a) > 0)
                   => \E i \in DOMAIN calls' :
                         calls'[i].op = "destroy_pa" /\ calls'[i].arg = a]_vars

\* a commit returned VALIDATE and left an attachment of a RENEW phys in RENEW,
\* with artifacts in the data plane
C39_Witness ==
    /\ last.op = "lsdn_commit" /\ last.ret = LSDNE_VALIDATE /\ problems # <<>>
    /\ \E a \in DOMAIN pas :
          /\ pas[a].state = LSDN_STATE_RENEW /\ physes[a[1]].state = LSDN_STATE_RENEW
          /\ BagCount(dp_pa, a) > 0
          /\ \E v \in pas[a].connected_virt_list : virts[v].state = LSDN_STATE_RENEW

\* C40: create_pa is called only for an attachment that is explicitly attached
\* and whose phys is local and has its iface set.
C40_CreatePaOnlyExplicit ==
    [][\A i \in DOMAIN calls' :
          calls'[i].op = "create_pa" =>
             /\ calls'[i].arg \in DOMAIN pas
             /\ pas[calls'[i].arg].explicitely_attached
             /\ physes[calls'[i].arg[1]].is_local
             /\ physes[calls'[i].arg[1]].attr_iface # NullStr]_vars

\* C40, the part the code keeps: create_pa is called only for attachments of a
\* local phys; one that is explicitly attached has the iface of its phys set, and
\* one that is not has no virt connected through it.
C40_CreatePaExplicitOrEmpty ==
    [][\A i \in DOMAIN calls' :
          calls'[i].op = "create_pa" =>
             /\ calls'[i].arg \in DOMAIN pas
             /\ physes[calls'[i].arg[1]].is_local
             /\ IF pas[calls'[i].arg].explicitely_attached
                THEN physes[calls'[i].arg[1]].attr_iface # NullStr
                ELSE pas[calls'[i].arg].connected_virt_list = {}]_vars

\* ---------------------------------------------------------- specification
Next ==
    \/ NetFree
    \/ PhysFree \/ PhysAttach \/ PhysDetach \/ PhysClaimLocal \/ PhysUnclaimLocal
    \/ VirtNew \/ VirtFree \/ VirtConnect \/ VirtDisconnect \/ VirtSetMac
    \/ Commit

Spec == Init /\ [][Next]_vars

\* the migration test: one host that has claimed every phys
NextMigrate ==
    \/ PhysAttach \/ PhysUnclaimLocal
    \/ VirtNew \/ VirtFree \/ VirtConnect \/ VirtDisconnect
    \/ Commit

SpecMigrate == InitMigrate /\ [][NextMigrate]_vars

\* the virts of one net and their MAC attributes
NextMacs ==
    \/ PhysAttach \/ VirtFree \/ VirtConnect \/ VirtSetMac
    \/ Commit

SpecMacs == InitMacs /\ [][NextMacs]_vars

\* VXLAN settings and their nets, attached to the phys of the host
NextNets ==
    \/ SettingsNewVxlanE2e \/ SettingsNewVxlanStatic
    \/ NetNew \/ NetFree
    \/ PhysAttach \/ PhysClaimLocal
    \/ Commit

SpecNets == InitNets /\ [][NextNets]_vars

\* VLAN and direct settings and their nets, no phys
NextDupId ==
    \/ SettingsNewVlan \/ SettingsNewDirect \/ SettingsFree
    \/ NetNew \/ NetFree
    \/ Commit

SpecDupId == InitDupId /\ [][NextDupId]_vars

\* the ip attributes of the physes, attached or not, alive or freed
NextPhysAttrs ==
    \/ PhysSetIp \/ PhysFree
    \/ PhysAttach \/ PhysClaimLocal
    \/ Commit

SpecPhysAttrs == Init /\ [][NextPhysAttrs]_vars

\* commits with and without a callback, on a driver whose operations may fail,
\* of physes with and without iface and a virt with or without interface
NextReturn ==
    \/ PhysAttach \/ PhysClaimLocal \/ PhysClearIface \/ PhysSetIface
    \/ VirtNew \/ VirtConnect
    \/ HooksFail
    \/ Commit \/ CommitNoCallback

SpecReturn == Init /\ [][NextReturn]_vars

\* two virts of one net, connected, moved, disconnected and freed while the
\* physes are attached and detached
NextVirts ==
    \/ PhysAttach \/ PhysDetach
    \/ VirtConnect \/ VirtDisconnect \/ VirtFree
    \/ Commit

SpecVirts == InitMacs /\ [][NextVirts]_vars

\* every kind of object freed, before and after it was committed
NextFree ==
    \/ SettingsFree \/ NetFree \/ PhysFree \/ VirtFree \/ PhysDetach
    \/ PhysAttach \/ PhysClaimLocal \/ VirtNew \/ VirtConnect
    \/ Commit

SpecFree == Init /\ [][NextFree]_vars

\* a commit while the recording driver holds at most MaxOutstanding copies of
\* any artifact: a nettype without a remove hook never gives one back
CommitOps ==
    /\ \A x \in BagToSet(dp_pa) : CopiesIn(x, dp_pa) <= MaxOutstanding
    /\ \A x \in BagToSet(dp_virt) : CopiesIn(x, dp_virt) <= MaxOutstanding
    /\ \A x \in BagToSet(dp_rpa) : CopiesIn(x, dp_rpa) <= MaxOutstanding
    /\ \A x \in BagToSet(dp_rvirt) : CopiesIn(x, dp_rvirt) <= MaxOutstanding
    /\ Commit

\* a host with a nettype of any vtable
NextOps ==
    PhysAttach \/ PhysDetach \/ VirtConnect \/ VirtDisconnect \/ VirtFree \/ CommitOps

SpecOps == InitOps /\ [][NextOps]_vars

\* a host of a direct network until its context is freed
NextContext ==
    PhysAttach \/ PhysClaimLocal \/ VirtNew \/ VirtConnect \/ VirtFree \/ Commit
    \/ ContextFree \/ ContextCleanup

SpecContext == InitDirect /\ [][NextContext]_vars

\* a host of a static VXLAN network until its context is cleaned up
NextCleanup ==
    PhysAttach \/ PhysDetach \/ PhysClaimLocal \/ PhysUnclaimLocal \/ PhysFree
    \/ VirtNew \/ VirtConnect \/ VirtDisconnect \/ VirtFree \/ NetFree \/ SettingsFree
    \/ Commit \/ ContextCleanup

SpecCleanup == Init /\ [][NextCleanup]_vars

\* two nets of one settings object, their virts and attachments, and the frees
NextOwners ==
    SettingsFree \/ NetFree \/ VirtFree \/ PhysAttach \/ PhysDetach \/ PhysClaimLocal
    \/ VirtNew \/ VirtConnect \/ Commit

SpecOwners == InitOwners /\ [][NextOwners]_vars

\* a host whose settings come to register the startup hook
NextHooks ==
    SettingsRegisterUserHooks \/ PhysAttach \/ PhysDetach \/ PhysClaimLocal
    \/ PhysClearIface \/ VirtNew \/ VirtConnect \/ Commit

SpecHooks == InitHooks /\ [][NextHooks]_vars

\* the attributes of committed physes and the connections of committed virts
\* changed between commits
NextRenew ==
    \/ PhysAttach \/ PhysClaimLocal \/ PhysUnclaimLocal
    \/ PhysSetIface \/ PhysClearIface \/ PhysSetIp
    \/ VirtNew \/ VirtConnect \/ VirtDisconnect
    \/ Commit

SpecRenew == InitOwners /\ [][NextRenew]_vars

\* a program that keeps entries on cleanup lists and flushes them
NextClist == ClistInit \/ ClistInitEntry \/ ClistAdd \/ ClistFlush

SpecClist == Init /\ [][NextClist]_vars

\* a host some of whose calls fail
NextFail ==
    PhysAttach \/ VirtNew \/ VirtConnect \/ VirtConnectFails \/ NoMemory \/ VirtFree \/ Commit

SpecFail == Init /\ [][NextFail]_vars

====
